---- MODULE Spec2Model ----
(***************************************************************************)
(* Authentication / session lifecycle controller of the Telegram launcher  *)
(* extension: the Command component of the main command (unnamed/part_003) *)
(* and of the first command copy (src/index.tsx), which shares the same    *)
(* initTelegram / handleQRAuth code but offers a "Refresh QR Code" action   *)
(* instead of the "Try Again" error screen.                                *)
(*                                                                         *)
(* Every top-level invocation of initTelegram (mount effect, Try Again,    *)
(* Refresh QR Code, automatic restart) is a "call" 1..MaxCalls; the        *)
(* recursion initTelegram(retryAttempt + 1) stays inside its call.  Each   *)
(* recursion level builds a new TelegramClient: client c is the client of  *)
(* the current level of call c, client Orphan(c) stands for the clients    *)
(* that earlier levels of call c connected and then dropped.               *)
(*                                                                         *)
(* retryAttempt and the attempt counters belong to the frames of           *)
(* initTelegram: once a level has left its try block without a throw       *)
(* (handleQRAuth and loadChats catch everything themselves) no code reads  *)
(* them again and they are dropped (reset to 0); they are kept when the    *)
(* retry budget was exhausted.                                             *)
(*                                                                         *)
(* Time is abstracted: a live timer may fire at any moment.  LocalStorage  *)
(* operations do not fail and take effect when they are issued.            *)
(***************************************************************************)
EXTENDS Integers, FiniteSets, Sequences, TLC

\* ---- program constants ----
MAX_RETRY_ATTEMPTS == 3

\* ---- bounds of the model ----
MaxCalls == 2        \* top-level initTelegram invocations per process
MaxSupplies == 2     \* times the user supplies the password from one render of the form
MaxDialogs == 2      \* dialogs in a snapshot
MaxLen == 4          \* code units in a text
MaxFilters == 3      \* dialog filters in a backend response
MaxPeers == 3        \* include and pinned peers of a folder, together
MaxSends == 2        \* messages sent from one ChatMessages screen
MaxFetches == 3      \* getMessages calls started from one ChatMessages screen
MaxPassword == 2     \* characters typed into the password form
MaxSelections == 2   \* calls of handleFolderSelect in flight together
MaxTokens == 4       \* login tokens issued during one handshake

Calls == 1..MaxCalls
NoSession == 0       \* SESSION_KEY absent
PriorSession == -1   \* SESSION_KEY written by an earlier run of the process

VARIABLES
  mounted,          \* the Command component is mounted (its screens can be acted on)
  command,          \* which command entry point runs: "main" (part_003) or "index" (src/index.tsx)
  session,          \* LocalStorage[SESSION_KEY]: NoSession, PriorSession or the client that saved it
  savedFolder,      \* LocalStorage holds a non-zero selected-folder-id with cached peers
  client,           \* useState client (0 = null)
  needAuth, needPassword, isLoading,
  passwordResolver, \* useState passwordResolver: the call whose challenge it resolves (0 = null)
  error,            \* useState error ("none" = null)
  chats,            \* useState chats: 0 = [], else the client whose dialog snapshot is shown
  qrCode,           \* useState qrCode: the call whose login token is shown (0 = "")
  live,             \* backend: clients with an open connection
  authorized,       \* backend: clients for which isUserAuthorized() is true
  pc,               \* where the frames of call c stand
  retryAttempt,     \* the parameter of the innermost initTelegram frame of call c
  checked,          \* what the authorization check of the current level returned
  child,            \* the call that call c started (awaited by it in src/index.tsx)
  closClient,       \* the client state captured by the clearSession closure of call c
  promise,          \* the promise awaited in handleQRAuth
  rejectErr,        \* the error it was rejected with
  timerOn,          \* the AUTH_TIMEOUT_MS timer is armed
  pollerOn,         \* the AUTH_CHECK_INTERVAL_MS interval is armed
  tick,             \* progress of the interval callback that saw authorization
  signIn,           \* progress of signInUserWithQrCode
  chal,             \* the passwordPromise of the password callback
  connects,         \* history: connect() calls made by call c
  firstOk,          \* history: the number of the first connect() of call c that succeeded
  postThrows,       \* history: throws into the reconnect handler after a successful connect
  invoked,          \* history: invocations of the password resolver of call c
  saved,            \* history: the interval callback of call c has written SESSION_KEY
  delivered,        \* history: passwords the password callback of call c returned to the backend
  toasts,           \* history: failure toasts shown by handleError on behalf of call c
  outcome,          \* history: which continuation of the awaited promise ran
  spawned           \* number of calls started so far

authVars == <<mounted, command, session, savedFolder, client, needAuth, needPassword, isLoading,
          passwordResolver, error, chats, qrCode, live, authorized,
          pc, retryAttempt, checked, child, closClient, promise, rejectErr,
          timerOn, pollerOn, tick, signIn, chal, connects, firstOk, postThrows, invoked,
          saved, delivered, toasts, outcome, spawned>>

\* ---- chat listing, peer ids and deep links ----
VARIABLES
  dialogs,          \* the dialog snapshot the backend returns: entities, NoEntity for none
  listing,          \* the listing run over it: whether it ran, toasted, and its Chat list
  opened,           \* the URI openInTelegram opened last
  chatInfo          \* the chatInfo state loadChatInfo set last

chatVars == <<dialogs, listing, opened, chatInfo>>

VARIABLES
  text,             \* a text received from Telegram, as a sequence of UTF-16 code units
  clean             \* what sanitizeText made of it: as a title and as a message preview

textVars == <<text, clean>>

VARIABLES
  response,         \* what messages.GetDialogFilters returns: whether it has filters, and them
  folders           \* FolderSettings: the folders state, and whether loadFolders ran and toasted

folderVars == <<response, folders>>

VARIABLES
  store,            \* LocalStorage: SELECTED_FOLDER_ID_KEY, FOLDER_INCLUDE_PEERS_KEY, FOLDER_PINNED_PEERS_KEY
  selected          \* the last handleFolderSelect call: its arguments and its allPeers list

selectVars == <<store, selected>>

VARIABLES
  native,           \* what messages.GetDialogs with a folderId does: throws, or the dialogs it returns
  restored          \* the command was launched again and initTelegram restored the saved folder

applyVars == <<native, restored>>

VARIABLES
  newMessage,       \* ChatMessages: useState newMessage, the text in the search bar
  sendOp,           \* the client.sendMessage call in flight, if any, and its text
  sentCount,        \* client.sendMessage calls that have completed
  transmitted,      \* the texts handed to client.sendMessage, with the input each came from
  backend,          \* the message texts the backend holds for the chat
  fetches,          \* the client.getMessages calls started: when, their result, whether done
  messages,         \* ChatMessages: useState messages, the fetch that set it and the sends completed then
  sendError         \* handleError calls made by the send and load handlers

msgVars == <<newMessage, sendOp, sentCount, transmitted, backend, fetches, messages, sendError>>

VARIABLES
  secret,           \* the 2FA password of the account
  typed,            \* per run: the text typed into the password form
  pwStage,          \* per run: how far the password has travelled
  pwLog             \* per run: the console output of the password path

pwVars == <<secret, typed, pwStage, pwLog>>

VARIABLES
  writers           \* per call of handleFolderSelect: its folder and how far it has run

stepVars == <<writers>>

VARIABLES
  issued,           \* login tokens the backend has issued so far (the latest is `issued`)
  qrUrl,            \* the token whose tg://login URI is in the qrCode state (0 = "")
  qrDataUrl,        \* the token whose image is in the qrDataUrl state (0 = "")
  rendering         \* the tokens whose QRCode.toDataURL is still running

qrVars == <<issued, qrUrl, qrDataUrl, rendering>>

vars == <<authVars, chatVars, textVars, folderVars, selectVars, applyVars, msgVars, pwVars,
          stepVars, qrVars>>

\* The client built by the current recursion level of call c, and the
\* clients earlier levels of call c left connected.
CurClient(c) == c

Orphan(c) == c + MaxCalls

\* The Command component after construction, before its mount effect runs.
AuthInit ==
  /\ mounted = TRUE
  /\ command \in {"main", "index"}
  /\ session \in {NoSession, PriorSession}
  /\ savedFolder \in (IF command = "main" THEN BOOLEAN ELSE {FALSE})
  /\ client = 0
  /\ needAuth = FALSE
  /\ needPassword = FALSE
  /\ isLoading = TRUE
  /\ passwordResolver = 0
  /\ error = "none"
  /\ chats = 0
  /\ qrCode = 0
  /\ live = {}
  /\ authorized = {}
  /\ pc = [c \in Calls |-> IF c = 1 THEN "start" ELSE "idle"]
  /\ retryAttempt = [c \in Calls |-> 0]
  /\ checked = [c \in Calls |-> "none"]
  /\ child = [c \in Calls |-> 0]
  /\ closClient = [c \in Calls |-> 0]
  /\ promise = [c \in Calls |-> "none"]
  /\ rejectErr = [c \in Calls |-> "none"]
  /\ timerOn = [c \in Calls |-> FALSE]
  /\ pollerOn = [c \in Calls |-> FALSE]
  /\ tick = [c \in Calls |-> "idle"]
  /\ signIn = [c \in Calls |-> "none"]
  /\ chal = [c \in Calls |-> "none"]
  /\ connects = [c \in Calls |-> 0]
  /\ firstOk = [c \in Calls |-> 0]
  /\ postThrows = [c \in Calls |-> 0]
  /\ invoked = [c \in Calls |-> 0]
  /\ saved = [c \in Calls |-> FALSE]
  /\ delivered = [c \in Calls |-> 0]
  /\ toasts = [c \in Calls |-> 0]
  /\ outcome = [c \in Calls |-> "none"]
  /\ spawned = 1

NotOpened == [template |-> "none", arg |-> <<>>, dialog |-> 0]

NoChatInfo == [id |-> <<>>, type |-> "none", dialog |-> 0, found |-> FALSE]

\* Nothing listed, opened or looked up yet.
ChatFresh ==
  /\ listing = [ran |-> FALSE, toast |-> FALSE, chats |-> <<>>]
  /\ opened = NotOpened
  /\ chatInfo = NoChatInfo

\* The state in which the chat listing has nothing to work on.
ChatIdle ==
  /\ dialogs = <<>>
  /\ ChatFresh

\* No text sanitized yet.
TextFresh ==
  clean = [titleDone |-> FALSE, title |-> <<>>, previewDone |-> FALSE, lastMessage |-> <<>>]

TextIdle ==
  /\ text = <<>>
  /\ TextFresh

\* useState([]) of FolderSettings, loadFolders not run yet.
FoldersFresh ==
  folders = [ran |-> FALSE, toast |-> FALSE, list |-> <<>>]

FoldersIdle ==
  /\ response = [ok |-> FALSE, filters |-> <<>>]
  /\ FoldersFresh

\* A LocalStorage key that is not set.
NoItem == [present |-> FALSE, value |-> <<>>]

\* No folder selected yet and nothing cached.
SelectIdle ==
  /\ store = [folderId |-> [present |-> FALSE, value |-> 0], include |-> NoItem, pinned |-> NoItem]
  /\ selected = [ran |-> FALSE, folderId |-> 0, includePeers |-> <<>>, pinnedPeers |-> <<>>,
                 allPeers |-> <<>>]

\* No folder query outstanding, no second launch.
ApplyIdle ==
  /\ native = [throws |-> FALSE, dialogs |-> <<>>]
  /\ restored = FALSE

\* No ChatMessages screen is open.
NoSend == [state |-> "idle", text |-> <<>>]

MsgIdle ==
  /\ newMessage = <<>>
  /\ sendOp = NoSend
  /\ sentCount = 0
  /\ transmitted = <<>>
  /\ backend = <<>>
  /\ fetches = <<>>
  /\ messages = [fetch |-> 0, sends |-> 0, list |-> <<>>]
  /\ sendError = 0

\* Two runs of the command are compared.
Runs == {"first", "second"}

\* No password has been asked for.
PwIdle ==
  /\ secret = <<>>
  /\ typed = [r \in Runs |-> <<>>]
  /\ pwStage = [r \in Runs |-> "none"]
  /\ pwLog = [r \in Runs |-> <<>>]

\* The calls of handleFolderSelect that can be in flight together.
Selections == 1..MaxSelections

\* No call of handleFolderSelect has started.
StepIdle == writers = [w \in Selections |-> [at |-> "idle", folderId |-> 0]]

\* No login token has been issued.
QrIdle ==
  /\ issued = 0
  /\ qrUrl = 0
  /\ qrDataUrl = 0
  /\ rendering = {}

Init ==
  /\ AuthInit
  /\ ChatIdle
  /\ TextIdle
  /\ FoldersIdle
  /\ SelectIdle
  /\ ApplyIdle
  /\ MsgIdle
  /\ PwIdle
  /\ StepIdle
  /\ QrIdle

\* The authentication controller at rest, for the specifications of the
\* functions that do not depend on it.
AuthQuiet(cmds) ==
  /\ AuthInit
  /\ command \in cmds
  /\ session = NoSession
  /\ savedFolder = FALSE

\* A command after initTelegram has connected with a valid saved
\* session, found itself authorized and listed the chats: client 1 is set and
\* connected, nothing is pending.
AuthConnectedIn(cmds) ==
  /\ mounted = TRUE
  /\ command \in cmds
  /\ session = PriorSession
  /\ savedFolder = FALSE
  /\ client = 1
  /\ needAuth = FALSE
  /\ needPassword = FALSE
  /\ isLoading = FALSE
  /\ passwordResolver = 0
  /\ error = "none"
  /\ chats = 1
  /\ qrCode = 0
  /\ live = {1}
  /\ authorized = {1}
  /\ pc = [c \in Calls |-> IF c = 1 THEN "done" ELSE "idle"]
  /\ retryAttempt = [c \in Calls |-> 0]
  /\ checked = [c \in Calls |-> IF c = 1 THEN "yes" ELSE "none"]
  /\ child = [c \in Calls |-> 0]
  /\ closClient = [c \in Calls |-> 0]
  /\ promise = [c \in Calls |-> "none"]
  /\ rejectErr = [c \in Calls |-> "none"]
  /\ timerOn = [c \in Calls |-> FALSE]
  /\ pollerOn = [c \in Calls |-> FALSE]
  /\ tick = [c \in Calls |-> "idle"]
  /\ signIn = [c \in Calls |-> "none"]
  /\ chal = [c \in Calls |-> "none"]
  /\ connects = [c \in Calls |-> 0]
  /\ firstOk = [c \in Calls |-> 0]
  /\ postThrows = [c \in Calls |-> 0]
  /\ invoked = [c \in Calls |-> 0]
  /\ saved = [c \in Calls |-> FALSE]
  /\ delivered = [c \in Calls |-> 0]
  /\ toasts = [c \in Calls |-> 0]
  /\ outcome = [c \in Calls |-> "none"]
  /\ spawned = 1

AuthConnected == AuthConnectedIn({"main"})

\* ---- the boundary error handler ----
\* The message of each kind of error the backend, the transport or the
\* timeout timer raises.
\* handleError(error): classifies by message content; owns session, needAuth,
\* error and the failure toast.  src/index.tsx's copy has no error state.
Message(e) ==
  CASE e = "revoked" -> <<"401:", "AUTH_KEY_UNREGISTERED", "(caused by messages.GetDialogs)">>
    [] e = "expired" -> <<"400:", "AUTH_TOKEN_EXPIRED">>
    [] e = "timeout" -> <<"Authorization", "timeout">>
    [] e = "transport" -> <<"Connection", "closed">>
    [] OTHER -> <<"420:", "FLOOD_WAIT">>

\* message.includes(part), on messages as sequences of words.
includes(msg, part) == \E i \in 1..Len(msg) : msg[i] = part

\* A handleError that clears the session whatever the message.
handleErrorAlwaysClear(c, e) ==
  /\ session' = NoSession
  /\ needAuth' = TRUE
  /\ toasts' = [toasts EXCEPT ![c] = @ + 1]
  /\ error' = IF command = "main" THEN e ELSE error

handleError(c, e) ==
  /\ session' = IF includes(Message(e), "AUTH_KEY_UNREGISTERED") THEN NoSession ELSE session
  /\ needAuth' = IF includes(Message(e), "AUTH_KEY_UNREGISTERED") THEN TRUE ELSE needAuth
  /\ toasts' = [toasts EXCEPT ![c] = @ + 1]
  /\ error' = IF command = "main" THEN e ELSE error

\* clearSession(): disconnects the client captured by the closure (if any),
\* removes the session, setClient(null), setNeedAuth(true), setChats([]).
clearSession(c) ==
  /\ live' = live \ {closClient[c]}
  /\ session' = NoSession
  /\ client' = 0
  /\ needAuth' = TRUE
  /\ chats' = 0

\* ---- the handshake promise ----
\* resolve(true) / reject(error) of the promise awaited in handleQRAuth: the
\* first settlement fixes the state, a later one changes nothing.
SettleOverwrite(cur, to) == to

Settle(cur, to) == IF cur = "pending" THEN to ELSE cur

RejectWith(c, e) ==
  /\ promise' = [promise EXCEPT ![c] = Settle(@, "rejected")]
  /\ rejectErr' = [rejectErr EXCEPT ![c] =
                     IF Settle(promise[c], "rejected") # promise[c] THEN e ELSE @]

\* ---- initTelegram ----
\* Calls whose handshake was rejected with AUTH_TOKEN_EXPIRED and whose catch
\* block has not run yet: each of them is about to start a new call.
PendingRestarts ==
  Cardinality({c \in Calls : pc[c] = "wait" /\ promise[c] = "rejected"
                             /\ rejectErr[c] = "expired"})

CanSpawn == spawned + PendingRestarts < MaxCalls

\* The synchronous head of initTelegram() for a new top-level call d, started
\* from a closure that captured the client state `clos`; the caller (0 for a
\* user action) moves on to callerPc.
Spawn(d, clos, caller, callerPc) ==
  /\ pc[d] = "idle"
  /\ d = spawned + 1
  /\ spawned' = d
  /\ closClient' = [closClient EXCEPT ![d] = clos]
  /\ pc' = IF caller = 0 THEN [pc EXCEPT ![d] = "start"]
           ELSE [pc EXCEPT ![d] = "start", ![caller] = callerPc]

\* A level of initTelegram leaves its try block without a throw: its retry
\* state is out of scope.
LeaveTry(c) ==
  /\ retryAttempt' = [retryAttempt EXCEPT ![c] = 0]
  /\ connects' = [connects EXCEPT ![c] = 0]
  /\ firstOk' = [firstOk EXCEPT ![c] = 0]
  /\ postThrows' = [postThrows EXCEPT ![c] = 0]

\* catch (connectionError): retry while retryAttempt < MAX_RETRY_ATTEMPTS,
\* otherwise rethrow to the outer catch (handleError) and finally.
RetryOrFailOffByOne(c, e) ==
  IF retryAttempt[c] <= MAX_RETRY_ATTEMPTS
  THEN /\ pc' = [pc EXCEPT ![c] = "delay"]
       /\ UNCHANGED <<session, needAuth, toasts, error, isLoading>>
  ELSE /\ pc' = [pc EXCEPT ![c] = "done"]
       /\ handleError(c, e)
       /\ isLoading' = FALSE

\* The reconnect handler showing the failure before every retry as well.
RetryOrFailToastEach(c, e) ==
  IF retryAttempt[c] < MAX_RETRY_ATTEMPTS
  THEN /\ pc' = [pc EXCEPT ![c] = "delay"]
       /\ handleError(c, e)
       /\ UNCHANGED isLoading
  ELSE /\ pc' = [pc EXCEPT ![c] = "done"]
       /\ handleError(c, e)
       /\ isLoading' = FALSE

RetryOrFail(c, e) ==
  IF retryAttempt[c] < MAX_RETRY_ATTEMPTS
  THEN /\ pc' = [pc EXCEPT ![c] = "delay"]
       /\ UNCHANGED <<session, needAuth, toasts, error, isLoading>>
  ELSE /\ pc' = [pc EXCEPT ![c] = "done"]
       /\ handleError(c, e)
       /\ isLoading' = FALSE

\* ConnectOk with the session saved right after connect().
ConnectOkSaving(c) ==
  /\ pc[c] = "start"
  /\ pc' = [pc EXCEPT ![c] = "check"]
  /\ connects' = [connects EXCEPT ![c] = @ + 1]
  /\ firstOk' = [firstOk EXCEPT ![c] = IF @ = 0 THEN connects[c] + 1 ELSE @]
  /\ live' = live \cup {CurClient(c)}
  /\ \E valid \in (IF session = NoSession THEN {FALSE} ELSE BOOLEAN) :
       authorized' = IF valid THEN authorized \cup {CurClient(c)} ELSE authorized
  /\ session' = CurClient(c)
  /\ client' = CurClient(c)
  /\ UNCHANGED <<mounted, command, savedFolder, needAuth, needPassword, isLoading,
                 passwordResolver, error, chats, qrCode, retryAttempt, checked, child,
                 closClient, promise, rejectErr, timerOn, pollerOn, tick, signIn, chal,
                 postThrows, invoked, saved, delivered, toasts, outcome, spawned, chatVars,
                 textVars, folderVars, selectVars, applyVars, msgVars, pwVars, stepVars,
                 qrVars>>

\* savedSession is read, a new client is built from it, connect() succeeds and
\* setClient(newClient) runs.  The backend authorizes the client only on a
\* saved session it still accepts.
ConnectOk(c) ==
  /\ pc[c] = "start"
  /\ pc' = [pc EXCEPT ![c] = "check"]
  /\ connects' = [connects EXCEPT ![c] = @ + 1]
  /\ firstOk' = [firstOk EXCEPT ![c] = IF @ = 0 THEN connects[c] + 1 ELSE @]
  /\ live' = live \cup {CurClient(c)}
  /\ \E valid \in (IF session = NoSession THEN {FALSE} ELSE BOOLEAN) :
       authorized' = IF valid THEN authorized \cup {CurClient(c)} ELSE authorized
  /\ client' = CurClient(c)
  /\ UNCHANGED <<mounted, command, session, savedFolder, needAuth, needPassword, isLoading,
                 passwordResolver, error, chats, qrCode, retryAttempt, checked, child,
                 closClient, promise, rejectErr, timerOn, pollerOn, tick, signIn, chal,
                 postThrows, invoked, saved, delivered, toasts, outcome, spawned, chatVars,
                 textVars, folderVars, selectVars, applyVars, msgVars, pwVars, stepVars,
                 qrVars>>

\* connect() throws a transport error.
ConnectFail(c) ==
  /\ pc[c] = "start"
  /\ connects' = [connects EXCEPT ![c] = @ + 1]
  /\ RetryOrFail(c, "transport")
  /\ UNCHANGED <<mounted, command, savedFolder, client, needPassword, passwordResolver,
                 chats, qrCode, live, authorized, retryAttempt, checked, child, closClient,
                 promise, rejectErr, timerOn, pollerOn, tick, signIn, chal, firstOk,
                 postThrows, invoked, saved, delivered, outcome, spawned, chatVars,
                 textVars, folderVars, selectVars, applyVars, msgVars, pwVars, stepVars,
                 qrVars>>

\* After the 2 s delay initTelegram(retryAttempt + 1) starts: setIsLoading(true),
\* setError(null), a new client object.  The client of the previous level, if
\* it was connected, stays connected and is referenced only by stale state.
RetryDelay(c) ==
  /\ pc[c] = "delay"
  /\ pc' = [pc EXCEPT ![c] = "start"]
  /\ retryAttempt' = [retryAttempt EXCEPT ![c] = @ + 1]
  /\ checked' = [checked EXCEPT ![c] = "none"]
  /\ isLoading' = TRUE
  /\ error' = IF command = "main" THEN "none" ELSE error
  /\ live' = IF c \in live THEN (live \ {c}) \cup {Orphan(c)} ELSE live
  /\ authorized' = IF c \in authorized THEN (authorized \ {c}) \cup {Orphan(c)} ELSE authorized
  /\ client' = IF client = c THEN Orphan(c) ELSE client
  /\ closClient' = [d \in Calls |-> IF closClient[d] = c THEN Orphan(c) ELSE closClient[d]]
  /\ UNCHANGED <<mounted, command, session, savedFolder, needAuth, needPassword,
                 passwordResolver, chats, qrCode, child, promise, rejectErr, timerOn,
                 pollerOn, tick, signIn, chal, connects, firstOk, postThrows, invoked,
                 saved, delivered, toasts, outcome, spawned, chatVars, textVars,
                 folderVars, selectVars, applyVars, msgVars, pwVars, stepVars, qrVars>>

\* AuthCheck that starts the QR handshake whatever the check returned.
AuthCheckAlwaysHandshake(c) ==
  /\ pc[c] = "check"
  /\ checked' = [checked EXCEPT ![c] = IF CurClient(c) \in authorized THEN "yes" ELSE "no"]
  /\ needAuth' = TRUE
  /\ pc' = [pc EXCEPT ![c] = "wait"]
  /\ promise' = [promise EXCEPT ![c] = "pending"]
  /\ timerOn' = [timerOn EXCEPT ![c] = TRUE]
  /\ pollerOn' = [pollerOn EXCEPT ![c] = TRUE]
  /\ signIn' = [signIn EXCEPT ![c] = "start"]
  /\ LeaveTry(c)
  /\ UNCHANGED <<mounted, command, session, savedFolder, client, needPassword, isLoading,
                 passwordResolver, error, chats, qrCode, live, authorized, child,
                 closClient, rejectErr, tick, chal, invoked, saved, delivered, toasts,
                 outcome, spawned, chatVars, textVars, folderVars, selectVars, applyVars,
                 msgVars, pwVars, stepVars, qrVars>>

\* const clientAuthorized = await newClient.isUserAuthorized().catch(() => false)
\* and the branch taken on it.  Not authorized: setNeedAuth(true) and
\* handleQRAuth creates the promise, the timeout timer, the sign-in flow and the
\* poller.  Authorized: setNeedAuth(false) and the chat listing starts (the
\* cached-folder branch of the main command, else loadChats).
AuthCheck(c) ==
  /\ pc[c] = "check"
  /\ IF CurClient(c) \notin authorized
     THEN /\ checked' = [checked EXCEPT ![c] = "no"]
          /\ needAuth' = TRUE
          /\ pc' = [pc EXCEPT ![c] = "wait"]
          /\ promise' = [promise EXCEPT ![c] = "pending"]
          /\ timerOn' = [timerOn EXCEPT ![c] = TRUE]
          /\ pollerOn' = [pollerOn EXCEPT ![c] = TRUE]
          /\ signIn' = [signIn EXCEPT ![c] = "start"]
          /\ LeaveTry(c)
          /\ UNCHANGED isLoading
     ELSE /\ checked' = [checked EXCEPT ![c] = "yes"]
          /\ needAuth' = FALSE
          /\ isLoading' = TRUE
          /\ IF command = "main" /\ savedFolder
             THEN /\ pc' = [pc EXCEPT ![c] = "cached"]
                  /\ UNCHANGED <<retryAttempt, connects, firstOk, postThrows>>
             ELSE /\ pc' = [pc EXCEPT ![c] = "load"]
                  /\ LeaveTry(c)
          /\ UNCHANGED <<promise, timerOn, pollerOn, signIn>>
  /\ UNCHANGED <<mounted, command, session, savedFolder, client, needPassword,
                 passwordResolver, error, chats, qrCode, live, authorized, child,
                 closClient, rejectErr, tick, chal, invoked, saved, delivered, toasts,
                 outcome, spawned, chatVars, textVars, folderVars, selectVars, applyVars,
                 msgVars, pwVars, stepVars, qrVars>>

\* The cached-folder branch of initTelegram: getDialogs, filter, setChats,
\* setIsLoading(false), return.
CachedOk(c) ==
  /\ pc[c] = "cached"
  /\ chats' = CurClient(c)
  /\ isLoading' = FALSE
  /\ pc' = [pc EXCEPT ![c] = "done"]
  /\ LeaveTry(c)
  /\ UNCHANGED <<mounted, command, session, savedFolder, client, needAuth, needPassword,
                 passwordResolver, error, qrCode, live, authorized, checked, child,
                 closClient, promise, rejectErr, timerOn, pollerOn, tick, signIn, chal,
                 invoked, saved, delivered, toasts, outcome, spawned, chatVars, textVars,
                 folderVars, selectVars, applyVars, msgVars, pwVars, stepVars, qrVars>>

\* getDialogs of the cached-folder branch throws: it sits inside the try block
\* whose catch is the reconnect handler.
CachedFail(c) ==
  /\ pc[c] = "cached"
  /\ postThrows' = [postThrows EXCEPT ![c] = @ + 1]
  /\ \E e \in {"hard", "revoked"} : RetryOrFail(c, e)
  /\ UNCHANGED <<mounted, command, savedFolder, client, needPassword, passwordResolver,
                 chats, qrCode, live, authorized, retryAttempt, checked, child, closClient,
                 promise, rejectErr, timerOn, pollerOn, tick, signIn, chal, connects,
                 firstOk, invoked, saved, delivered, outcome, spawned, chatVars, textVars,
                 folderVars, selectVars, applyVars, msgVars, pwVars, stepVars, qrVars>>

\* ---- loadChats ----
\* The dialog fetch succeeds: setChats, finally setIsLoading(false).
LoadOk(c) ==
  /\ pc[c] = "load"
  /\ chats' = CurClient(c)
  /\ isLoading' = FALSE
  /\ pc' = [pc EXCEPT ![c] = "done"]
  /\ UNCHANGED <<mounted, command, session, savedFolder, client, needAuth, needPassword,
                 passwordResolver, error, qrCode, live, authorized, retryAttempt, checked,
                 child, closClient, promise, rejectErr, timerOn, pollerOn, tick, signIn,
                 chal, connects, firstOk, postThrows, invoked, saved, delivered, toasts,
                 outcome, spawned, chatVars, textVars, folderVars, selectVars, applyVars,
                 msgVars, pwVars, stepVars, qrVars>>

\* The dialog fetch throws: loadChats catches, calls handleError, finally.
LoadFail(c) ==
  /\ pc[c] = "load"
  /\ \E e \in {"hard", "revoked"} : handleError(c, e)
  /\ isLoading' = FALSE
  /\ pc' = [pc EXCEPT ![c] = "done"]
  /\ UNCHANGED <<mounted, command, savedFolder, client, needPassword, passwordResolver,
                 chats, qrCode, live, authorized, retryAttempt, checked, child, closClient,
                 promise, rejectErr, timerOn, pollerOn, tick, signIn, chal, connects,
                 firstOk, postThrows, invoked, saved, delivered, outcome, spawned,
                 chatVars, textVars, folderVars, selectVars, applyVars, msgVars, pwVars,
                 stepVars, qrVars>>

\* src/index.tsx only: loadChats first asks isUserAuthorized().catch(() => false);
\* on false it clears the session and awaits a new initTelegram().
LoadReauth(c) ==
  /\ command = "index"
  /\ pc[c] = "load"
  /\ CanSpawn
  /\ clearSession(c)
  /\ Spawn(spawned + 1, closClient[c], c, "nested")
  /\ child' = [child EXCEPT ![c] = spawned + 1]
  /\ isLoading' = TRUE
  /\ UNCHANGED <<mounted, command, savedFolder, needPassword, passwordResolver, error,
                 qrCode, authorized, retryAttempt, checked, promise, rejectErr, timerOn,
                 pollerOn, tick, signIn, chal, connects, firstOk, postThrows, invoked,
                 saved, delivered, toasts, outcome, chatVars, textVars, folderVars,
                 selectVars, applyVars, msgVars, pwVars, stepVars, qrVars>>

\* src/index.tsx only: the awaited nested initTelegram() has returned; the
\* caller's finally runs.
ChildDone(c) ==
  /\ pc[c] = "nested"
  /\ pc[child[c]] = "done"
  /\ pc' = [pc EXCEPT ![c] = "done"]
  /\ isLoading' = FALSE
  /\ UNCHANGED <<mounted, command, session, savedFolder, client, needAuth, needPassword,
                 passwordResolver, error, chats, qrCode, live, authorized, retryAttempt,
                 checked, child, closClient, promise, rejectErr, timerOn, pollerOn, tick,
                 signIn, chal, connects, firstOk, postThrows, invoked, saved, delivered,
                 toasts, outcome, spawned, chatVars, textVars, folderVars, selectVars,
                 applyVars, msgVars, pwVars, stepVars, qrVars>>

\* ---- handleQRAuth: the callbacks handed to signInUserWithQrCode ----
\* qrCode callback: a login token is issued and shown (setQrCode).
QrToken(c) ==
  /\ signIn[c] = "start"
  /\ CurClient(c) \in live
  /\ signIn' = [signIn EXCEPT ![c] = "qr"]
  /\ qrCode' = c
  /\ UNCHANGED <<mounted, command, session, savedFolder, client, needAuth, needPassword,
                 isLoading, passwordResolver, error, chats, live, authorized, pc,
                 retryAttempt, checked, child, closClient, promise, rejectErr, timerOn,
                 pollerOn, tick, chal, connects, firstOk, postThrows, invoked, saved,
                 delivered, toasts, outcome, spawned, chatVars, textVars, folderVars,
                 selectVars, applyVars, msgVars, pwVars, stepVars, qrVars>>

\* The user scans the code and the account has no 2FA password: the backend
\* authorizes the client.
ScanOk(c) ==
  /\ signIn[c] = "qr"
  /\ CurClient(c) \in live
  /\ signIn' = [signIn EXCEPT ![c] = "ok"]
  /\ authorized' = authorized \cup {CurClient(c)}
  /\ UNCHANGED <<mounted, command, session, savedFolder, client, needAuth, needPassword,
                 isLoading, passwordResolver, error, chats, qrCode, live, pc, retryAttempt,
                 checked, child, closClient, promise, rejectErr, timerOn, pollerOn, tick,
                 chal, connects, firstOk, postThrows, invoked, saved, delivered, toasts,
                 outcome, spawned, chatVars, textVars, folderVars, selectVars, applyVars,
                 msgVars, pwVars, stepVars, qrVars>>

\* password callback: setNeedPassword(true), a new passwordPromise whose
\* resolver is stored with setPasswordResolver, then await passwordPromise.
PasswordRequested(c) ==
  /\ signIn[c] = "qr"
  /\ CurClient(c) \in live
  /\ signIn' = [signIn EXCEPT ![c] = "pw"]
  /\ needPassword' = TRUE
  /\ passwordResolver' = c
  /\ chal' = [chal EXCEPT ![c] = "pending"]
  /\ UNCHANGED <<mounted, command, session, savedFolder, client, needAuth, isLoading,
                 error, chats, qrCode, live, authorized, pc, retryAttempt, checked, child,
                 closClient, promise, rejectErr, timerOn, pollerOn, tick, connects,
                 firstOk, postThrows, invoked, saved, delivered, toasts, outcome, spawned,
                 chatVars, textVars, folderVars, selectVars, applyVars, msgVars, pwVars,
                 stepVars, qrVars>>

\* onError callback with a message containing "2FA": setNeedPassword(true),
\* return false (the flow goes on).
OnError2FA(c) ==
  /\ signIn[c] \in {"start", "qr"}
  /\ CurClient(c) \in live
  /\ ~needPassword
  /\ needPassword' = TRUE
  /\ UNCHANGED <<mounted, command, session, savedFolder, client, needAuth, isLoading,
                 passwordResolver, error, chats, qrCode, live, authorized, pc,
                 retryAttempt, checked, child, closClient, promise, rejectErr, timerOn,
                 pollerOn, tick, signIn, chal, connects, firstOk, postThrows, invoked,
                 saved, delivered, toasts, outcome, spawned, chatVars, textVars,
                 folderVars, selectVars, applyVars, msgVars, pwVars, stepVars, qrVars>>

\* onError callback with any other message: reject(error), return true (the
\* sign-in flow stops).
OnError(c, e) ==
  /\ signIn[c] \in {"start", "qr"}
  /\ CurClient(c) \in live
  /\ e = "expired" => CanSpawn
  /\ signIn' = [signIn EXCEPT ![c] = "err"]
  /\ RejectWith(c, e)
  /\ UNCHANGED <<mounted, command, session, savedFolder, client, needAuth, needPassword,
                 isLoading, passwordResolver, error, chats, qrCode, live, authorized, pc,
                 retryAttempt, checked, child, closClient, timerOn, pollerOn, tick, chal,
                 connects, firstOk, postThrows, invoked, saved, delivered, toasts, outcome,
                 spawned, chatVars, textVars, folderVars, selectVars, applyVars, msgVars,
                 pwVars, stepVars, qrVars>>

\* The backend accepts the password returned by the password callback.
PasswordAccepted(c) ==
  /\ signIn[c] = "sent"
  /\ CurClient(c) \in live
  /\ signIn' = [signIn EXCEPT ![c] = "ok"]
  /\ authorized' = authorized \cup {CurClient(c)}
  /\ UNCHANGED <<mounted, command, session, savedFolder, client, needAuth, needPassword,
                 isLoading, passwordResolver, error, chats, qrCode, live, pc, retryAttempt,
                 checked, child, closClient, promise, rejectErr, timerOn, pollerOn, tick,
                 chal, connects, firstOk, postThrows, invoked, saved, delivered, toasts,
                 outcome, spawned, chatVars, textVars, folderVars, selectVars, applyVars,
                 msgVars, pwVars, stepVars, qrVars>>

\* The backend refuses it: onError(error), reject(error).
PasswordRefused(c) ==
  /\ signIn[c] = "sent"
  /\ CurClient(c) \in live
  /\ signIn' = [signIn EXCEPT ![c] = "err"]
  /\ RejectWith(c, "hard")
  /\ UNCHANGED <<mounted, command, session, savedFolder, client, needAuth, needPassword,
                 isLoading, passwordResolver, error, chats, qrCode, live, authorized, pc,
                 retryAttempt, checked, child, closClient, timerOn, pollerOn, tick, chal,
                 connects, firstOk, postThrows, invoked, saved, delivered, toasts, outcome,
                 spawned, chatVars, textVars, folderVars, selectVars, applyVars, msgVars,
                 pwVars, stepVars, qrVars>>

\* ---- handleQRAuth: the timers ----
\* A timeout callback that does not reject.
TimeoutSilent(c) ==
  /\ timerOn[c]
  /\ timerOn' = [timerOn EXCEPT ![c] = FALSE]
  /\ UNCHANGED <<mounted, command, session, savedFolder, client, needAuth, needPassword,
                 isLoading, passwordResolver, error, chats, qrCode, live, authorized, pc,
                 retryAttempt, checked, child, closClient, promise, rejectErr, pollerOn,
                 tick, signIn, chal, connects, firstOk, postThrows, invoked, saved,
                 delivered, toasts, outcome, spawned, chatVars, textVars, folderVars,
                 selectVars, applyVars, msgVars, pwVars, stepVars, qrVars>>

\* setTimeout(..., AUTH_TIMEOUT_MS): reject(new Error("Authorization timeout")).
Timeout(c) ==
  /\ timerOn[c]
  /\ timerOn' = [timerOn EXCEPT ![c] = FALSE]
  /\ RejectWith(c, "timeout")
  /\ UNCHANGED <<mounted, command, session, savedFolder, client, needAuth, needPassword,
                 isLoading, passwordResolver, error, chats, qrCode, live, authorized, pc,
                 retryAttempt, checked, child, closClient, pollerOn, tick, signIn, chal,
                 connects, firstOk, postThrows, invoked, saved, delivered, toasts, outcome,
                 spawned, chatVars, textVars, folderVars, selectVars, applyVars, msgVars,
                 pwVars, stepVars, qrVars>>

\* An interval callback that continues without the session write.
TickCheckNoWrite(c) ==
  /\ pollerOn[c]
  /\ tick[c] = "idle"
  /\ CurClient(c) \in authorized
  /\ CurClient(c) \in live
  /\ pollerOn' = [pollerOn EXCEPT ![c] = FALSE]
  /\ timerOn' = [timerOn EXCEPT ![c] = FALSE]
  /\ tick' = [tick EXCEPT ![c] = "saved"]
  /\ UNCHANGED <<mounted, command, session, savedFolder, client, needAuth, needPassword,
                 isLoading, passwordResolver, error, chats, qrCode, live, authorized, pc,
                 retryAttempt, checked, child, closClient, promise, rejectErr, signIn,
                 chal, connects, firstOk, postThrows, invoked, saved, delivered, toasts,
                 outcome, spawned, chatVars, textVars, folderVars, selectVars, applyVars,
                 msgVars, pwVars, stepVars, qrVars>>

\* setInterval(..., AUTH_CHECK_INTERVAL_MS): a callback that sees
\* isUserAuthorized() true does clearInterval, clearTimeout and
\* LocalStorage.setItem(SESSION_KEY, session), and awaits the write.  (A
\* callback that sees false, or throws, changes nothing.)
TickCheck(c) ==
  /\ pollerOn[c]
  /\ tick[c] = "idle"
  /\ CurClient(c) \in authorized
  /\ CurClient(c) \in live
  /\ pollerOn' = [pollerOn EXCEPT ![c] = FALSE]
  /\ timerOn' = [timerOn EXCEPT ![c] = FALSE]
  /\ session' = CurClient(c)
  /\ saved' = [saved EXCEPT ![c] = TRUE]
  /\ tick' = [tick EXCEPT ![c] = "saved"]
  /\ UNCHANGED <<mounted, command, savedFolder, client, needAuth, needPassword, isLoading,
                 passwordResolver, error, chats, qrCode, live, authorized, pc,
                 retryAttempt, checked, child, closClient, promise, rejectErr, signIn,
                 chal, connects, firstOk, postThrows, invoked, delivered, toasts, outcome,
                 spawned, chatVars, textVars, folderVars, selectVars, applyVars, msgVars,
                 pwVars, stepVars, qrVars>>

\* After the awaited write: setNeedAuth(false), setNeedPassword(false),
\* setPasswordResolver(null), resolve(true).
TickFinish(c) ==
  /\ tick[c] = "saved"
  /\ tick' = [tick EXCEPT ![c] = "end"]
  /\ needAuth' = FALSE
  /\ needPassword' = FALSE
  /\ passwordResolver' = 0
  /\ promise' = [promise EXCEPT ![c] = Settle(@, "resolved")]
  /\ UNCHANGED <<mounted, command, session, savedFolder, client, isLoading, error, chats,
                 qrCode, live, authorized, pc, retryAttempt, checked, child, closClient,
                 rejectErr, timerOn, pollerOn, signIn, chal, connects, firstOk, postThrows,
                 invoked, saved, delivered, toasts, outcome, spawned, chatVars, textVars,
                 folderVars, selectVars, applyVars, msgVars, pwVars, stepVars, qrVars>>

\* ---- handleQRAuth: after the awaited promise ----
\* The promise was resolved: await loadChats(telegramClient).
ContinueSuccess(c) ==
  /\ pc[c] = "wait"
  /\ promise[c] = "resolved"
  /\ outcome' = [outcome EXCEPT ![c] = "success"]
  /\ pc' = [pc EXCEPT ![c] = "load"]
  /\ isLoading' = TRUE
  /\ UNCHANGED <<mounted, command, session, savedFolder, client, needAuth, needPassword,
                 passwordResolver, error, chats, qrCode, live, authorized, retryAttempt,
                 checked, child, closClient, promise, rejectErr, timerOn, pollerOn, tick,
                 signIn, chal, connects, firstOk, postThrows, invoked, saved, delivered,
                 toasts, spawned, chatVars, textVars, folderVars, selectVars, applyVars,
                 msgVars, pwVars, stepVars, qrVars>>

\* ContinueRestart that toasts the expiry through handleError before restarting.
ContinueRestartToast(c) ==
  /\ pc[c] = "wait"
  /\ promise[c] = "rejected"
  /\ rejectErr[c] = "expired"
  /\ spawned < MaxCalls
  /\ outcome' = [outcome EXCEPT ![c] = "failure"]
  /\ live' = live \ {closClient[c]}
  /\ session' = NoSession
  /\ client' = 0
  /\ needAuth' = TRUE
  /\ chats' = 0
  /\ toasts' = [toasts EXCEPT ![c] = @ + 1]
  /\ Spawn(spawned + 1, closClient[c], c,
           IF command = "main" THEN "done" ELSE "nested")
  /\ error' = IF command = "main" THEN "none" ELSE error
  /\ isLoading' = (command # "main")
  /\ child' = [child EXCEPT ![c] = spawned + 1]
  /\ UNCHANGED <<mounted, command, savedFolder, needPassword, passwordResolver, qrCode,
                 authorized, retryAttempt, checked, promise, rejectErr, timerOn, pollerOn,
                 tick, signIn, chal, connects, firstOk, postThrows, invoked, saved,
                 delivered, chatVars, textVars, folderVars, selectVars, applyVars, msgVars,
                 pwVars, stepVars, qrVars>>

\* The promise was rejected with AUTH_TOKEN_EXPIRED: clearSession(), then
\* initTelegram() (setIsLoading(true), setError(null)); the main command does
\* not await it and runs its own finally (setIsLoading(false)), src/index.tsx
\* awaits it.
ContinueRestart(c) ==
  /\ pc[c] = "wait"
  /\ promise[c] = "rejected"
  /\ rejectErr[c] = "expired"
  /\ spawned < MaxCalls
  /\ outcome' = [outcome EXCEPT ![c] = "failure"]
  /\ clearSession(c)
  /\ Spawn(spawned + 1, closClient[c], c,
           IF command = "main" THEN "done" ELSE "nested")
  /\ error' = IF command = "main" THEN "none" ELSE error
  /\ isLoading' = (command # "main")
  /\ child' = [child EXCEPT ![c] = spawned + 1]
  /\ UNCHANGED <<mounted, command, savedFolder, needPassword, passwordResolver, qrCode,
                 authorized, retryAttempt, checked, promise, rejectErr, timerOn, pollerOn,
                 tick, signIn, chal, connects, firstOk, postThrows, invoked, saved,
                 delivered, toasts, chatVars, textVars, folderVars, selectVars, applyVars,
                 msgVars, pwVars, stepVars, qrVars>>

\* The promise was rejected with any other error: handleError(error), then the
\* finally of initTelegram.
ContinueFail(c) ==
  /\ pc[c] = "wait"
  /\ promise[c] = "rejected"
  /\ rejectErr[c] # "expired"
  /\ outcome' = [outcome EXCEPT ![c] = "failure"]
  /\ handleError(c, rejectErr[c])
  /\ isLoading' = FALSE
  /\ pc' = [pc EXCEPT ![c] = "done"]
  /\ UNCHANGED <<mounted, command, savedFolder, client, needPassword, passwordResolver,
                 chats, qrCode, live, authorized, retryAttempt, checked, child, closClient,
                 promise, rejectErr, timerOn, pollerOn, tick, signIn, chal, connects,
                 firstOk, postThrows, invoked, saved, delivered, spawned, chatVars,
                 textVars, folderVars, selectVars, applyVars, msgVars, pwVars, stepVars,
                 qrVars>>

\* ---- user actions ----
\* The user closes the command: the component unmounts.  No effect of the
\* component returns a cleanup for the handshake, so nothing else changes.
Unmount ==
  /\ mounted
  /\ mounted' = FALSE
  /\ UNCHANGED <<command, session, savedFolder, client, needAuth, needPassword, isLoading,
                 passwordResolver, error, chats, qrCode, live, authorized, pc,
                 retryAttempt, checked, child, closClient, promise, rejectErr, timerOn,
                 pollerOn, tick, signIn, chal, connects, firstOk, postThrows, invoked,
                 saved, delivered, toasts, outcome, spawned, chatVars, textVars,
                 folderVars, selectVars, applyVars, msgVars, pwVars, stepVars, qrVars>>

\* "Try Again" on the error screen of the main command (shown when error is set
\* and needAuth is false): setError(null), setIsLoading(true), initTelegram().
TryAgain ==
  /\ mounted
  /\ command = "main"
  /\ error # "none"
  /\ ~needAuth
  /\ CanSpawn
  /\ error' = "none"
  /\ isLoading' = TRUE
  /\ Spawn(spawned + 1, client, 0, "")
  /\ UNCHANGED <<mounted, command, session, savedFolder, client, needAuth, needPassword,
                 passwordResolver, chats, qrCode, live, authorized, retryAttempt, checked,
                 child, promise, rejectErr, timerOn, pollerOn, tick, signIn, chal,
                 connects, firstOk, postThrows, invoked, saved, delivered, toasts, outcome,
                 chatVars, textVars, folderVars, selectVars, applyVars, msgVars, pwVars,
                 stepVars, qrVars>>

\* "Refresh QR Code" on the QR screen of src/index.tsx (shown when needAuth is
\* true and needPassword is false): onAction={() => initTelegram()}.
RefreshQR ==
  /\ mounted
  /\ command = "index"
  /\ needAuth
  /\ ~needPassword
  /\ CanSpawn
  /\ isLoading' = TRUE
  /\ Spawn(spawned + 1, client, 0, "")
  /\ UNCHANGED <<mounted, command, session, savedFolder, client, needAuth, needPassword,
                 passwordResolver, error, chats, qrCode, live, authorized, retryAttempt,
                 checked, child, promise, rejectErr, timerOn, pollerOn, tick, signIn, chal,
                 connects, firstOk, postThrows, invoked, saved, delivered, toasts, outcome,
                 chatVars, textVars, folderVars, selectVars, applyVars, msgVars, pwVars,
                 stepVars, qrVars>>

\* The resolver stored by the password callback of call r is invoked n times
\* in a row: resolvePassword(password).  A pending passwordPromise is resolved
\* and the password callback returns the password to the backend; a resolved
\* one is left alone.
RECURSIVE InvokeResolverEveryTime(_, _)
InvokeResolverEveryTime(st, n) ==
  IF n = 0 THEN st
  ELSE InvokeResolverEveryTime(
         [chal |-> "resolved", delivered |-> st.delivered + 1, signIn |-> "sent"], n - 1)

RECURSIVE InvokeResolver(_, _)
InvokeResolver(st, n) ==
  IF n = 0 THEN st
  ELSE InvokeResolver(
         IF st.chal = "pending"
         THEN [chal |-> "resolved", delivered |-> st.delivered + 1, signIn |-> "sent"]
         ELSE st, n - 1)

\* The password form (shown when needAuth and needPassword) supplies a
\* non-blank password n times from one render (Submit action and Enter-key
\* handler close over the same passwordResolver): each time
\* passwordResolver(password), setPasswordResolver(null).  (With a blank
\* password, or with a null resolver, the handlers change no state.)
SupplyPassword(n) ==
  /\ mounted
  /\ needAuth
  /\ needPassword
  /\ passwordResolver # 0
  /\ LET r == passwordResolver
         st == InvokeResolver([chal |-> chal[r], delivered |-> delivered[r],
                               signIn |-> signIn[r]], n)
     IN /\ chal' = [chal EXCEPT ![r] = st.chal]
        /\ delivered' = [delivered EXCEPT ![r] = st.delivered]
        /\ signIn' = [signIn EXCEPT ![r] = st.signIn]
        /\ invoked' = [invoked EXCEPT ![r] = n]
  /\ passwordResolver' = 0
  /\ UNCHANGED <<mounted, command, session, savedFolder, client, needAuth, needPassword,
                 isLoading, error, chats, qrCode, live, authorized, pc, retryAttempt,
                 checked, child, closClient, promise, rejectErr, timerOn, pollerOn, tick,
                 connects, firstOk, postThrows, saved, toasts, outcome, spawned, chatVars,
                 textVars, folderVars, selectVars, applyVars, msgVars, pwVars, stepVars,
                 qrVars>>

\* ---------------------------------------------------------------------------
\* Chat listing, peer ids and deep links
\* ---------------------------------------------------------------------------
\* A string is a sequence of one-character strings.
DigitChars == <<"0", "1", "2", "3", "4", "5", "6", "7", "8", "9">>

\* id.toString(): the decimal form of a positive integer.
RECURSIVE toString(_)
toString(n) ==
  IF n < 10 THEN <<DigitChars[n + 1]>>
  ELSE toString(n \div 10) \o <<DigitChars[(n % 10) + 1]>>

\* s.startsWith(p)
startsWith(s, p) == Len(s) >= Len(p) /\ SubSeq(s, 1, Len(p)) = p

\* s.substring(from)
substring(s, from) == SubSeq(s, from + 1, Len(s))

\* s.replace(p, r) with a string pattern: the first occurrence only.
replace(s, p, r) ==
  LET at == {i \in 1..(Len(s) - Len(p) + 1) : SubSeq(s, i, i + Len(p) - 1) = p}
  IN IF at = {} THEN s
     ELSE LET i == CHOOSE j \in at : \A k \in at : j <= k
          IN SubSeq(s, 1, i - 1) \o r \o SubSeq(s, i + Len(p), Len(s))

\* The entities a dialog can carry, and the dialog without one.
EntityIds == {7, 1007}

Usernames == {<<>>, <<"t", "g">>}

NoId == 0             \* entity.id undefined

NoEntity == [className |-> "none", id |-> NoId, megagroup |-> FALSE, username |-> <<>>]

Entities ==
  {e \in [className : {"User", "Chat", "Channel"}, id : EntityIds,
          megagroup : BOOLEAN, username : Usernames] :
     e.megagroup => e.className = "Channel"}

\* All sequences over S of length at most n.
SeqsUpTo(S, n) == UNION {[1..k -> S] : k \in 0..n}

\* The chat type of an entity class (Private by default).
chatTypeOf(entity) ==
  IF entity.className = "Channel"
  THEN (IF entity.megagroup THEN "Group" ELSE "Channel")
  ELSE IF entity.className = "Chat" THEN "Group" ELSE "Private"

\* entity.id?.toString() || ""
idString(entity) == IF entity.id = NoId THEN <<>> ELSE toString(entity.id)

\* formatDialog that marks channels with "-" only.
formatDialogShortPrefix(entity, i) ==
  [id |-> IF entity.className \in {"Channel", "Chat"}
          THEN <<"-">> \o idString(entity) ELSE idString(entity),
   username |-> entity.username, type |-> chatTypeOf(entity), dialog |-> i]

\* formatDialog(dialog) of the main command and of utils/telegramUtils.ts for
\* a dialog with an entity (it returns null without one); `dialog` records the
\* position of the dialog in the snapshot.
formatDialog(entity, i) ==
  [id |-> IF entity.className = "Channel" THEN <<"-", "1", "0", "0">> \o idString(entity)
          ELSE IF entity.className = "Chat" THEN <<"-">> \o idString(entity)
          ELSE idString(entity),
   username |-> entity.username, type |-> chatTypeOf(entity), dialog |-> i]

\* formatDialog returns null: `if (!entity) return null`, and
\* `if (!peerId) return null` after the prefix has been put in front.
formatsToNull(entity) == entity = NoEntity \/ formatDialog(entity, 0).id = <<>>

\* The inline mapping of loadChats in src/index.tsx: optional chaining lets a
\* dialog without entity through, and groups and channels both get "-100"
\* in front of Math.abs(Number(entity?.id)), which is NaN without an id.
formatInline(entity, i) ==
  [id |-> IF chatTypeOf(entity) \in {"Group", "Channel"}
          THEN <<"-", "1", "0", "0">>
               \o (IF entity.id = NoId THEN <<"N", "a", "N">> ELSE toString(entity.id))
          ELSE idString(entity),
   username |-> entity.username, type |-> chatTypeOf(entity), dialog |-> i]

\* dialogs.map(async (dialog) => ...) of loadChats in src/index.tsx.
RECURSIVE formatAllInline(_, _)
formatAllInline(ds, i) ==
  IF i > Len(ds) THEN <<>>
  ELSE <<formatInline(ds[i], i)>> \o formatAllInline(ds, i + 1)

\* for (const dialog of dialogs) { const chat = formatDialog(dialog);
\*   if (chat) formattedChats.push(chat) }
RECURSIVE formatAll(_, _)
formatAll(ds, i) ==
  IF i > Len(ds) THEN <<>>
  ELSE (IF formatsToNull(ds[i]) THEN <<>> ELSE <<formatDialog(ds[i], i)>>)
       \o formatAll(ds, i + 1)

\* openInTelegram(chatId, username): the tg:// URI handed to open().
openInTelegram(chatId, username) ==
  IF username # <<>> THEN [template |-> "resolve?domain=", arg |-> username]
  ELSE IF startsWith(chatId, <<"-", "1", "0", "0">>)
  THEN [template |-> "privatepost?channel=",
        arg |-> replace(chatId, <<"-", "1", "0", "0">>, <<>>)]
  ELSE IF startsWith(chatId, <<"-">>)
  THEN [template |-> "group?id=", arg |-> substring(chatId, 1)]
  ELSE [template |-> "user?id=", arg |-> chatId]

\* loadChatInfo of src/openchat.tsx for a numeric identifier: the chat type
\* from the prefix, with the looked-up entity or, when getEntity threw,
\* without it.
typeByPrefix(chatIdentifier, entity, found) ==
  IF startsWith(chatIdentifier, <<"-", "1", "0", "0">>)
  THEN (IF found /\ entity.megagroup THEN "Group" ELSE "Channel")
  ELSE IF startsWith(chatIdentifier, <<"-">>) THEN "Group" ELSE "Private"

\* The listing loop of loadChats / getChats over the dialog snapshot.
ListChats ==
  /\ ~listing.ran
  /\ listing' = [ran |-> TRUE, toast |-> FALSE,
                 chats |-> IF command = "index" THEN formatAllInline(dialogs, 1)
                           ELSE formatAll(dialogs, 1)]
  /\ UNCHANGED <<authVars, dialogs, opened, chatInfo, textVars, folderVars, selectVars,
                 applyVars, msgVars, pwVars, stepVars, qrVars>>

\* The user opens the i-th listed chat in the Telegram application.
OpenChat(i) ==
  /\ listing.ran
  /\ i \in 1..Len(listing.chats)
  /\ LET chat == listing.chats[i]
         uri == openInTelegram(chat.id, chat.username)
     IN opened' = [template |-> uri.template, arg |-> uri.arg, dialog |-> chat.dialog]
  /\ UNCHANGED <<authVars, dialogs, listing, chatInfo, textVars, folderVars, selectVars,
                 applyVars, msgVars, pwVars, stepVars, qrVars>>

\* The i-th listed chat is opened by its bare identifier in the open-chat
\* command; getEntity finds the entity or throws.
LoadChatInfo(i, found) ==
  /\ listing.ran
  /\ i \in 1..Len(listing.chats)
  /\ LET chat == listing.chats[i]
     IN /\ chat.id # <<>>
        /\ found => dialogs[chat.dialog] # NoEntity
        /\ chatInfo' = [id |-> chat.id, dialog |-> chat.dialog, found |-> found,
                        type |-> typeByPrefix(chat.id, dialogs[chat.dialog], found)]
  /\ UNCHANGED <<authVars, dialogs, listing, opened, textVars, folderVars, selectVars,
                 applyVars, msgVars, pwVars, stepVars, qrVars>>

\* ---------------------------------------------------------------------------
\* Text sanitization (sanitizeText, the preview of formatDialog)
\* ---------------------------------------------------------------------------

\* The kinds of UTF-16 code unit the regular expressions of sanitizeText
\* tell apart: "c" a C0/C1 control character, " " white space, "a" any
\* other BMP character, "H" a high surrogate, "L" a low surrogate.
CodeUnits == {"c", " ", "a", "H", "L"}

\* s.substring(start, end)
substringTo(s, start, end) ==
  SubSeq(s, start + 1, IF end < Len(s) THEN end ELSE Len(s))

\* s.replace(/[\u0000-\u001F\u007F-\u009F]/g, "")
RECURSIVE removeControl(_)
removeControl(s) ==
  IF s = <<>> THEN <<>>
  ELSE IF Head(s) = "c" THEN removeControl(Tail(s))
  ELSE <<Head(s)>> \o removeControl(Tail(s))

\* s.replace(/[\uD800-\uDBFF](?![\uDC00-\uDFFF])|(?:[^\uD800-\uDBFF]|^)[\uDC00-\uDFFF]/g, "")
\* from index i on (1-based).  The global replace scans left to right: at each
\* index the first alternative is tried, then the second (its character-class
\* branch before its ^ branch); a match is removed and the scan resumes after
\* it, otherwise the code unit is kept and the scan moves on by one.
RECURSIVE removeSurrogates(_, _)
removeSurrogates(s, i) ==
  IF i > Len(s) THEN <<>>
  ELSE IF s[i] = "H" /\ ~(i < Len(s) /\ s[i + 1] = "L")
  THEN removeSurrogates(s, i + 1)
  ELSE IF s[i] # "H" /\ i < Len(s) /\ s[i + 1] = "L"
  THEN removeSurrogates(s, i + 2)
  ELSE IF i = 1 /\ s[i] = "L"
  THEN removeSurrogates(s, i + 1)
  ELSE <<s[i]>> \o removeSurrogates(s, i + 1)

\* s.trim()
RECURSIVE trimStart(_)
trimStart(s) ==
  IF s # <<>> /\ Head(s) = " " THEN trimStart(Tail(s)) ELSE s

RECURSIVE trimEnd(_)
trimEnd(s) ==
  IF s # <<>> /\ s[Len(s)] = " " THEN trimEnd(SubSeq(s, 1, Len(s) - 1)) ELSE s

trim(s) == trimEnd(trimStart(s))

sanitizeText(t) ==
  IF t = <<>> THEN <<>>
  ELSE substringTo(trim(removeSurrogates(removeControl(t), 1)), 0, 1000)

\* title: sanitizeText(entity.title ...)
SanitizeTitle ==
  /\ ~clean.titleDone
  /\ clean' = [clean EXCEPT !.titleDone = TRUE, !.title = sanitizeText(text)]
  /\ UNCHANGED <<authVars, chatVars, text, folderVars, selectVars, applyVars, msgVars,
                 pwVars, stepVars, qrVars>>

\* lastMessage: sanitizeText(dialog.message?.message?.substring(0, 100) || "")
SanitizePreview ==
  /\ ~clean.previewDone
  /\ clean' = [clean EXCEPT !.previewDone = TRUE,
                            !.lastMessage = sanitizeText(substringTo(text, 0, 100))]
  /\ UNCHANGED <<authVars, chatVars, text, folderVars, selectVars, applyVars, msgVars,
                 pwVars, stepVars, qrVars>>

\* ---------------------------------------------------------------------------
\* Folder list (FolderSettings.loadFolders)
\* ---------------------------------------------------------------------------

\* The filters a response can hold: a null entry (reading it throws), the
\* DialogFilterDefault (it has no id) and DialogFilter objects with an id and
\* a string title.
FilterIds == {0, 2, 3}

FilterTitles == {<<"a">>, <<"c", "a">>}

Filters ==
  {[className |-> "null", hasId |-> FALSE, id |-> 0, title |-> <<>>],
   [className |-> "DialogFilterDefault", hasId |-> FALSE, id |-> 0, title |-> <<>>]}
  \cup {[className |-> "DialogFilter", hasId |-> TRUE, id |-> i, title |-> t] :
          i \in FilterIds, t \in FilterTitles}

\* The synthetic first entry.
AllChats ==
  [id |-> 0, title |-> <<"A", "l", "l", " ", "C", "h", "a", "t", "s">>, filter |-> 0]

\* The callback of result.filters.map for the i-th filter.
mapFilter(filter, i) ==
  IF filter.className = "null"
  THEN [id |-> 0,
        title |-> <<"E", "r", "r", "o", "r", " ", "F", "o", "l", "d", "e", "r">>,
        filter |-> i]
  ELSE [id |-> IF filter.hasId /\ filter.id # 0 THEN filter.id ELSE 0,
        title |-> IF filter.hasId THEN sanitizeText(filter.title)
                  ELSE <<"U", "n", "n", "a", "m", "e", "d", " ", "F", "o", "l", "d", "e", "r">>,
        filter |-> i]

\* result.filters.map(...) without the filter that follows it.
RECURSIVE mapFiltersKeepingAll(_, _)
mapFiltersKeepingAll(fs, i) ==
  IF i > Len(fs) THEN <<>>
  ELSE <<mapFilter(fs[i], i)>> \o mapFiltersKeepingAll(fs, i + 1)

\* result.filters.map(...).filter(f => f.id !== 0), from the i-th filter on.
RECURSIVE mapFilters(_, _)
mapFilters(fs, i) ==
  IF i > Len(fs) THEN <<>>
  ELSE LET f == mapFilter(fs[i], i)
       IN (IF f.id # 0 THEN <<f>> ELSE <<>>) \o mapFilters(fs, i + 1)

\* loadFolders: without filters in the response it throws and toasts, leaving
\* the folders state alone; otherwise it sets the list.
LoadFolders ==
  /\ ~folders.ran
  /\ folders' = IF ~response.ok
                THEN [folders EXCEPT !.ran = TRUE, !.toast = TRUE]
                ELSE [ran |-> TRUE, toast |-> FALSE,
                      list |-> <<AllChats>> \o mapFilters(response.filters, 1)]
  /\ UNCHANGED <<authVars, chatVars, textVars, response, selectVars, applyVars, msgVars,
                 pwVars, stepVars, qrVars>>

\* ---------------------------------------------------------------------------
\* Folder selection (handleFolderSelect)
\* ---------------------------------------------------------------------------

\* The input peers of a folder: a user, a legacy group, a channel, and
\* inputPeerSelf, which carries no id.
Peers ==
  {[kind |-> "user", id |-> 7], [kind |-> "chat", id |-> 1007],
   [kind |-> "channel", id |-> 7], [kind |-> "self", id |-> 0]}

\* The callback of includePeers.map / pinnedPeers.map followed by the filter
\* that drops its nulls, from the i-th peer on.
RECURSIVE peerIds(_, _)
peerIds(peers, i) ==
  IF i > Len(peers) THEN <<>>
  ELSE LET peer == peers[i]
           rest == peerIds(peers, i + 1)
       IN IF peer.kind = "user"
          THEN <<[type |-> "user", id |-> toString(peer.id)]>> \o rest
          ELSE IF peer.kind = "channel"
          THEN <<[type |-> "channel", id |-> <<"-", "1", "0", "0">> \o toString(peer.id)]>> \o rest
          ELSE IF peer.kind = "chat"
          THEN <<[type |-> "chat", id |-> <<"-">> \o toString(peer.id)]>> \o rest
          ELSE rest

\* pinnedPeerIds.forEach: push the i-th and later pinned ids that allPeers
\* does not hold yet.
RECURSIVE pushPinned(_, _, _)
pushPinned(allPeers, pinnedPeerIds, i) ==
  IF i > Len(pinnedPeerIds) THEN allPeers
  ELSE IF \E k \in 1..Len(allPeers) : allPeers[k].id = pinnedPeerIds[i].id
  THEN pushPinned(allPeers, pinnedPeerIds, i + 1)
  ELSE pushPinned(Append(allPeers, pinnedPeerIds[i]), pinnedPeerIds, i + 1)

\* What messages.GetDialogs with a folderId can do: throw, or return raw
\* dialogs, with or without an entity on them.
NativeResults ==
  {[throws |-> TRUE, dialogs |-> <<>>]}
  \cup {[throws |-> FALSE, dialogs |-> ds] :
          ds \in SeqsUpTo({NoEntity, [id |-> 7, className |-> "User", megagroup |-> FALSE,
                                      username |-> <<>>]}, 1)}

\* The chat list loadChats(client, folderId) sets: the getDialogs snapshot
\* for folder 0; for another folder the dialogs of the native query, and the
\* getDialogs snapshot only when that query throws.
loadChats(folderId) ==
  IF folderId = 0 THEN formatAll(dialogs, 1)
  ELSE IF native.throws THEN formatAll(dialogs, 1)
  ELSE formatAll(native.dialogs, 1)

\* The folder filter letting every chat through.
RECURSIVE chatsInFolderUnfiltered(_, _, _)
chatsInFolderUnfiltered(allPeers, chatList, i) ==
  IF i > Len(chatList) THEN <<>>
  ELSE <<chatList[i]>> \o chatsInFolderUnfiltered(allPeers, chatList, i + 1)

\* The chats of the snapshot whose id is in allPeers, from the i-th on.
RECURSIVE chatsInFolder(_, _, _)
chatsInFolder(allPeers, chatList, i) ==
  IF i > Len(chatList) THEN <<>>
  ELSE (IF \E k \in 1..Len(allPeers) : allPeers[k].id = chatList[i].id
        THEN <<chatList[i]>> ELSE <<>>)
       \o chatsInFolder(allPeers, chatList, i + 1)

\* handleFolderSelect caching the peers of every folder, id 0 included.
handleFolderSelectAnyFolder(folderId, includePeers, pinnedPeers) ==
  LET saveInclude == Len(includePeers) > 0
      savePinned == Len(pinnedPeers) > 0
      includePeerIds == peerIds(includePeers, 1)
      pinnedPeerIds == peerIds(pinnedPeers, 1)
      allPeers == pushPinned(IF saveInclude THEN includePeerIds ELSE <<>>,
                             IF savePinned THEN pinnedPeerIds ELSE <<>>, 1)
  IN /\ store' = [folderId |-> [present |-> TRUE, value |-> folderId],
                  include |-> IF saveInclude
                              THEN [present |-> TRUE, value |-> includePeerIds]
                              ELSE NoItem,
                  pinned |-> IF savePinned
                             THEN [present |-> TRUE, value |-> pinnedPeerIds]
                             ELSE NoItem]
     /\ selected' = [ran |-> TRUE, folderId |-> folderId, includePeers |-> includePeers,
                     pinnedPeers |-> pinnedPeers, allPeers |-> allPeers]
     /\ listing' = IF client = 0 THEN listing
                   ELSE IF folderId # 0 /\ Len(allPeers) > 0
                   THEN [listing EXCEPT !.ran = TRUE,
                                        !.chats = chatsInFolder(allPeers, formatAll(dialogs, 1), 1)]
                   ELSE [ran |-> TRUE, toast |-> FALSE, chats |-> loadChats(folderId)]
  /\ UNCHANGED <<authVars, dialogs, opened, chatInfo, textVars, folderVars, applyVars,
                 msgVars, pwVars, stepVars, qrVars>>

\* handleFolderSelect(folderId, includePeers, pinnedPeers)
handleFolderSelect(folderId, includePeers, pinnedPeers) ==
  LET saveInclude == folderId # 0 /\ Len(includePeers) > 0
      savePinned == folderId # 0 /\ Len(pinnedPeers) > 0
      includePeerIds == peerIds(includePeers, 1)
      pinnedPeerIds == peerIds(pinnedPeers, 1)
      allPeers == pushPinned(IF saveInclude THEN includePeerIds ELSE <<>>,
                             IF savePinned THEN pinnedPeerIds ELSE <<>>, 1)
  IN /\ store' = [folderId |-> [present |-> TRUE, value |-> folderId],
                  include |-> IF saveInclude
                              THEN [present |-> TRUE, value |-> includePeerIds]
                              ELSE NoItem,
                  pinned |-> IF savePinned
                             THEN [present |-> TRUE, value |-> pinnedPeerIds]
                             ELSE NoItem]
     /\ selected' = [ran |-> TRUE, folderId |-> folderId, includePeers |-> includePeers,
                     pinnedPeers |-> pinnedPeers, allPeers |-> allPeers]
     /\ listing' = IF client = 0 THEN listing
                   ELSE IF folderId # 0 /\ Len(allPeers) > 0
                   THEN [listing EXCEPT !.ran = TRUE,
                                        !.chats = chatsInFolder(allPeers, formatAll(dialogs, 1), 1)]
                   ELSE [ran |-> TRUE, toast |-> FALSE, chats |-> loadChats(folderId)]
  /\ UNCHANGED <<authVars, dialogs, opened, chatInfo, textVars, folderVars, applyVars,
                 msgVars, pwVars, stepVars, qrVars>>

\* The command is launched again: initTelegram connects with the saved
\* session, finds itself authorized and restores the saved folder
\* (setSelectedFolderId(savedFolderId || 0)), from the cached peers when
\* there are any and with loadChats otherwise.
RestoreFolder ==
  /\ ~restored
  /\ restored' = TRUE
  /\ LET savedFolderId == IF store.folderId.present THEN store.folderId.value ELSE 0
         allPeers == pushPinned(IF store.include.present THEN store.include.value ELSE <<>>,
                                IF store.pinned.present THEN store.pinned.value ELSE <<>>, 1)
     IN /\ selected' = [selected EXCEPT !.folderId = savedFolderId]
        /\ listing' = [ran |-> TRUE, toast |-> FALSE,
                       chats |-> IF savedFolderId # 0 /\ Len(allPeers) > 0
                                 THEN chatsInFolder(allPeers, formatAll(dialogs, 1), 1)
                                 ELSE loadChats(savedFolderId)]
  /\ UNCHANGED <<authVars, dialogs, opened, chatInfo, textVars, folderVars, store, native,
                 msgVars, pwVars, stepVars, qrVars>>

\* The command is launched without a usable session: initTelegram goes
\* through handleQRAuth, which after the login does loadChats(telegramClient)
\* with no folder id; the saved folder is not read on this path.
LoadAfterLogin ==
  /\ ~restored
  /\ restored' = TRUE
  /\ listing' = [ran |-> TRUE, toast |-> FALSE, chats |-> loadChats(0)]
  /\ UNCHANGED <<authVars, dialogs, opened, chatInfo, textVars, folderVars, selectVars,
                 native, msgVars, pwVars, stepVars, qrVars>>

\* ---------------------------------------------------------------------------
\* Messages of a chat (ChatMessages: loadMessages, handleSendMessage)
\* ---------------------------------------------------------------------------

\* The texts the user can type into the search bar.
Drafts == {<<" ">>, <<"c">>, <<"a">>, <<"a", "c">>, <<"a", "L", "L">>}

\* result.map(msg => ({message: sanitizeText(msg.message) || "", ...}))
RECURSIVE sanitizeAll(_)
sanitizeAll(result) ==
  IF result = <<>> THEN <<>>
  ELSE <<sanitizeText(Head(result))>> \o sanitizeAll(Tail(result))

\* The list loadMessages sets from a getMessages result: sanitized in the
\* main command, as received in src/index.tsx.
shownMessages(result) ==
  IF command = "index" THEN result ELSE sanitizeAll(result)

\* The message text handed to client.sendMessage for the input t.
outgoing(t) ==
  IF command = "index" THEN t ELSE sanitizeText(t)

\* A getMessages call started now.
NewFetch(sends, held) == [startedAt |-> sends, result |-> held, done |-> FALSE]

\* onSearchTextChange={setNewMessage}
TypeMessage(t) ==
  /\ newMessage # t
  /\ newMessage' = t
  /\ UNCHANGED <<authVars, chatVars, textVars, folderVars, selectVars, applyVars, sendOp,
                 sentCount, transmitted, backend, fetches, messages, sendError, pwVars,
                 stepVars, qrVars>>

\* handleSendMessage / sendMessage up to the await of client.sendMessage
PressSend ==
  /\ sendOp.state = "idle"
  /\ Len(transmitted) < MaxSends
  /\ Len(fetches) < MaxFetches
  /\ trim(newMessage) # <<>>
  /\ client # 0
  /\ sendOp' = [state |-> "flight", text |-> outgoing(newMessage)]
  /\ transmitted' = Append(transmitted, [input |-> newMessage, text |-> outgoing(newMessage)])
  /\ UNCHANGED <<authVars, chatVars, textVars, folderVars, selectVars, applyVars,
                 newMessage, sentCount, backend, fetches, messages, sendError, pwVars,
                 stepVars, qrVars>>

\* client.sendMessage resolves: setNewMessage(""), then loadMessages() starts
\* a getMessages call.
SendOk ==
  /\ sendOp.state = "flight"
  /\ sendOp' = NoSend
  /\ sentCount' = sentCount + 1
  /\ backend' = Append(backend, sendOp.text)
  /\ newMessage' = <<>>
  /\ fetches' = Append(fetches, NewFetch(sentCount + 1, Append(backend, sendOp.text)))
  /\ UNCHANGED <<authVars, chatVars, textVars, folderVars, selectVars, applyVars,
                 transmitted, messages, sendError, pwVars, stepVars, qrVars>>

\* A failed send that also empties the input.
SendFailClearing ==
  /\ sendOp.state = "flight"
  /\ sendOp' = NoSend
  /\ newMessage' = <<>>
  /\ sendError' = sendError + 1
  /\ UNCHANGED <<authVars, chatVars, textVars, folderVars, selectVars, applyVars,
                 sentCount, transmitted, backend, fetches, messages, pwVars, stepVars,
                 qrVars>>

\* client.sendMessage rejects: handleError.
SendFail ==
  /\ sendOp.state = "flight"
  /\ sendOp' = NoSend
  /\ sendError' = sendError + 1
  /\ UNCHANGED <<authVars, chatVars, textVars, folderVars, selectVars, applyVars,
                 newMessage, sentCount, transmitted, backend, fetches, messages, pwVars,
                 stepVars, qrVars>>

\* The Refresh action of the main command, and every re-run of the
\* loadMessages effect: a getMessages call is started.
Refresh ==
  /\ command = "main"
  /\ Len(fetches) < MaxFetches
  /\ fetches' = Append(fetches, NewFetch(sentCount, backend))
  /\ UNCHANGED <<authVars, chatVars, textVars, folderVars, selectVars, applyVars,
                 newMessage, sendOp, sentCount, transmitted, backend, messages, sendError,
                 pwVars, stepVars, qrVars>>

\* The i-th getMessages call resolves, with the messages the backend held
\* when the call was made or (late) with those it holds now: setMessages.
FetchDone(i, late) ==
  /\ i \in 1..Len(fetches)
  /\ ~fetches[i].done
  /\ fetches' = [fetches EXCEPT ![i].done = TRUE]
  /\ messages' = [fetch |-> i, sends |-> sentCount,
                  list |-> shownMessages(IF late THEN backend ELSE fetches[i].result)]
  /\ UNCHANGED <<authVars, chatVars, textVars, folderVars, selectVars, applyVars,
                 newMessage, sendOp, sentCount, transmitted, backend, sendError, pwVars,
                 stepVars, qrVars>>

\* The i-th getMessages call rejects: handleError, the list stays.
FetchFail(i) ==
  /\ i \in 1..Len(fetches)
  /\ ~fetches[i].done
  /\ fetches' = [fetches EXCEPT ![i].done = TRUE]
  /\ sendError' = sendError + 1
  /\ UNCHANGED <<authVars, chatVars, textVars, folderVars, selectVars, applyVars,
                 newMessage, sendOp, sentCount, transmitted, backend, messages, pwVars,
                 stepVars, qrVars>>

\* ---------------------------------------------------------------------------
\* The 2FA password and the console (password callback, password form)
\* ---------------------------------------------------------------------------

\* The characters of a typed password; none of them occurs in a log text.
PasswordChars == {"p", "q", " "}

\* A log line carrying the password itself.
receivedLineCleartext(password) ==
  <<"Password received from form:">> \o password

\* console.log("Password received from form, length:", password.length)
receivedLine(password) ==
  <<"Password received from form, length:">> \o toString(Len(password))

\* onSubmit of the password form: the log line, trim, the empty check, then
\* the resolver with its log line.
SubmitPassword(r) ==
  /\ pwStage[r] = "form"
  /\ LET password == trim(typed[r])
     IN IF password = <<>>
        THEN /\ pwStage' = [pwStage EXCEPT ![r] = "empty"]
             /\ pwLog' = [pwLog EXCEPT ![r] = Append(@, <<"Submitting 2FA password...">>)]
        ELSE /\ pwStage' = [pwStage EXCEPT ![r] = "resolved"]
             /\ pwLog' = [pwLog EXCEPT ![r] =
                            @ \o <<<<"Submitting 2FA password...">>, receivedLine(password)>>]
  /\ UNCHANGED <<authVars, chatVars, textVars, folderVars, selectVars, applyVars, msgVars,
                 secret, typed, stepVars, qrVars>>

\* The password callback resumes after its await and returns the password.
ReturnPassword(r) ==
  /\ pwStage[r] = "resolved"
  /\ pwStage' = [pwStage EXCEPT ![r] = "sent"]
  /\ pwLog' = [pwLog EXCEPT ![r] = Append(@, <<"Returning password to Telegram">>)]
  /\ UNCHANGED <<authVars, chatVars, textVars, folderVars, selectVars, applyVars, msgVars,
                 secret, typed, stepVars, qrVars>>

\* The backend checks the password: it signs in, or onError logs the backend
\* message and rejects, and the catch of handleQRAuth logs the error.
PasswordVerdict(r) ==
  /\ pwStage[r] = "sent"
  /\ IF trim(typed[r]) = secret
     THEN /\ pwStage' = [pwStage EXCEPT ![r] = "accepted"]
          /\ UNCHANGED pwLog
     ELSE /\ pwStage' = [pwStage EXCEPT ![r] = "refused"]
          /\ pwLog' = [pwLog EXCEPT ![r] =
                         @ \o <<<<"QR auth error:", "PASSWORD_HASH_INVALID">>,
                                <<"QR Auth error:", "PASSWORD_HASH_INVALID">>>>]
  /\ UNCHANGED <<authVars, chatVars, textVars, folderVars, selectVars, applyVars, msgVars,
                 secret, typed, stepVars, qrVars>>

\* ---------------------------------------------------------------------------
\* handleFolderSelect step by step (one step per await)
\* ---------------------------------------------------------------------------

\* The folders of the account and their peers, as the dropdown passes them
\* to handleFolderSelect: include peers, pinned peers.
FolderPeers(folderId) ==
  IF folderId = 2 THEN <<<<[kind |-> "user", id |-> 7]>>, <<>>>>
  ELSE IF folderId = 3
  THEN <<<<[kind |-> "channel", id |-> 7]>>, <<[kind |-> "chat", id |-> 1007]>>>>
  ELSE <<<<>>, <<>>>>

\* What a call for folderId writes under the include and the pinned key.
includeItem(folderId) ==
  IF folderId # 0 /\ Len(FolderPeers(folderId)[1]) > 0
  THEN [present |-> TRUE, value |-> peerIds(FolderPeers(folderId)[1], 1)]
  ELSE NoItem

pinnedItem(folderId) ==
  IF folderId # 0 /\ Len(FolderPeers(folderId)[2]) > 0
  THEN [present |-> TRUE, value |-> peerIds(FolderPeers(folderId)[2], 1)]
  ELSE NoItem

\* allPeers of a call for folderId.
allPeersOf(folderId) ==
  pushPinned(includeItem(folderId).value, pinnedItem(folderId).value, 1)

\* The user picks a folder: setSelectedFolderId(folderId) and the call of
\* LocalStorage.setItem(SELECTED_FOLDER_ID_KEY, ...), which is awaited.
SelectStart(w, folderId) ==
  /\ writers[w].at \in {"idle", "done"}
  /\ writers' = [writers EXCEPT ![w] = [at |-> "id", folderId |-> folderId]]
  /\ selected' = [ran |-> TRUE, folderId |-> folderId,
                  includePeers |-> FolderPeers(folderId)[1],
                  pinnedPeers |-> FolderPeers(folderId)[2],
                  allPeers |-> allPeersOf(folderId)]
  /\ UNCHANGED <<authVars, chatVars, textVars, folderVars, store, applyVars, msgVars,
                 pwVars, qrVars>>

\* The write of the folder id is done; the include key is written or removed.
SelectWriteId(w) ==
  /\ writers[w].at = "id"
  /\ store' = [store EXCEPT !.folderId = [present |-> TRUE, value |-> writers[w].folderId]]
  /\ writers' = [writers EXCEPT ![w].at = "include"]
  /\ UNCHANGED <<authVars, chatVars, textVars, folderVars, selected, applyVars, msgVars,
                 pwVars, qrVars>>

\* The include key is done; the pinned key is written or removed.
SelectWriteInclude(w) ==
  /\ writers[w].at = "include"
  /\ store' = [store EXCEPT !.include = includeItem(writers[w].folderId)]
  /\ writers' = [writers EXCEPT ![w].at = "pinned"]
  /\ UNCHANGED <<authVars, chatVars, textVars, folderVars, selected, applyVars, msgVars,
                 pwVars, qrVars>>

\* The pinned key is done; with peers and a client setIsLoading(true) and
\* getDialogs, without peers loadChats(client, folderId), which starts with
\* setIsLoading(true).
SelectWritePinned(w) ==
  /\ writers[w].at = "pinned"
  /\ store' = [store EXCEPT !.pinned = pinnedItem(writers[w].folderId)]
  /\ LET folderId == writers[w].folderId
     IN /\ writers' = [writers EXCEPT ![w].at =
                         IF client = 0 THEN "done"
                         ELSE IF folderId # 0 /\ Len(allPeersOf(folderId)) > 0 THEN "fetch"
                         ELSE "load"]
        /\ isLoading' = IF client = 0 THEN isLoading ELSE TRUE
  /\ UNCHANGED <<mounted, command, session, savedFolder, client, needAuth, needPassword,
                 passwordResolver, error, chats, qrCode, live, authorized, pc,
                 retryAttempt, checked, child, closClient, promise, rejectErr, timerOn,
                 pollerOn, tick, signIn, chal, connects, firstOk, postThrows, invoked,
                 saved, delivered, toasts, outcome, spawned, chatVars, textVars,
                 folderVars, selected, applyVars, msgVars, pwVars, qrVars>>

\* getDialogs returned: the chats of the folder are set, setIsLoading(false).
SelectFetchOk(w) ==
  /\ writers[w].at = "fetch"
  /\ listing' = [listing EXCEPT !.ran = TRUE,
                   !.chats = chatsInFolder(allPeersOf(writers[w].folderId),
                                           formatAll(dialogs, 1), 1)]
  /\ isLoading' = FALSE
  /\ writers' = [writers EXCEPT ![w].at = "done"]
  /\ UNCHANGED <<mounted, command, session, savedFolder, client, needAuth, needPassword,
                 passwordResolver, error, chats, qrCode, live, authorized, pc,
                 retryAttempt, checked, child, closClient, promise, rejectErr, timerOn,
                 pollerOn, tick, signIn, chal, connects, firstOk, postThrows, invoked,
                 saved, delivered, toasts, outcome, spawned, dialogs, opened, chatInfo,
                 textVars, folderVars, selectVars, applyVars, msgVars, pwVars, qrVars>>

\* getDialogs threw: the catch of handleFolderSelect calls handleError.
SelectFetchFail(w, e) ==
  /\ writers[w].at = "fetch"
  /\ toasts[1] < MaxSelections
  /\ handleError(1, e)
  /\ writers' = [writers EXCEPT ![w].at = "done"]
  /\ UNCHANGED <<mounted, command, savedFolder, client, needPassword, isLoading,
                 passwordResolver, chats, qrCode, live, authorized, pc, retryAttempt,
                 checked, child, closClient, promise, rejectErr, timerOn, pollerOn, tick,
                 signIn, chal, connects, firstOk, postThrows, invoked, saved, delivered,
                 outcome, spawned, chatVars, textVars, folderVars, selectVars, applyVars,
                 msgVars, pwVars, qrVars>>

\* loadChats set the chats; its finally does setIsLoading(false).
SelectLoadOk(w) ==
  /\ writers[w].at = "load"
  /\ listing' = [ran |-> TRUE, toast |-> FALSE, chats |-> loadChats(writers[w].folderId)]
  /\ isLoading' = FALSE
  /\ writers' = [writers EXCEPT ![w].at = "done"]
  /\ UNCHANGED <<mounted, command, session, savedFolder, client, needAuth, needPassword,
                 passwordResolver, error, chats, qrCode, live, authorized, pc,
                 retryAttempt, checked, child, closClient, promise, rejectErr, timerOn,
                 pollerOn, tick, signIn, chal, connects, firstOk, postThrows, invoked,
                 saved, delivered, toasts, outcome, spawned, dialogs, opened, chatInfo,
                 textVars, folderVars, selectVars, applyVars, msgVars, pwVars, qrVars>>

\* loadChats caught an error: handleError, and its finally does
\* setIsLoading(false).
SelectLoadFail(w, e) ==
  /\ writers[w].at = "load"
  /\ toasts[1] < MaxSelections
  /\ handleError(1, e)
  /\ isLoading' = FALSE
  /\ writers' = [writers EXCEPT ![w].at = "done"]
  /\ UNCHANGED <<mounted, command, savedFolder, client, needPassword, passwordResolver,
                 chats, qrCode, live, authorized, pc, retryAttempt, checked, child,
                 closClient, promise, rejectErr, timerOn, pollerOn, tick, signIn, chal,
                 connects, firstOk, postThrows, invoked, saved, delivered, outcome,
                 spawned, chatVars, textVars, folderVars, selectVars, applyVars, msgVars,
                 pwVars, qrVars>>

\* ---------------------------------------------------------------------------
\* The QR payload (qrCode callback of signInUserWithQrCode)
\* ---------------------------------------------------------------------------

\* The library calls qrCode({token}): setQrCode(qrUrl) and the start of
\* generateQRCode(qrUrl), which is awaited.
IssueToken ==
  /\ issued < MaxTokens
  /\ issued' = issued + 1
  /\ qrUrl' = issued + 1
  /\ rendering' = rendering \cup {issued + 1}
  /\ UNCHANGED <<authVars, chatVars, textVars, folderVars, selectVars, applyVars, msgVars,
                 pwVars, stepVars, qrDataUrl>>

\* QRCode.toDataURL for token t returns: setQrDataUrl(dataUrl).
RenderDone(t) ==
  /\ t \in rendering
  /\ rendering' = rendering \ {t}
  /\ qrDataUrl' = t
  /\ UNCHANGED <<authVars, chatVars, textVars, folderVars, selectVars, applyVars, msgVars,
                 pwVars, stepVars, issued, qrUrl>>

\* QRCode.toDataURL for token t throws: generateQRCode of the main command
\* returns "" and the callback sets it; the one of src/index.tsx only logs.
RenderFail(t) ==
  /\ t \in rendering
  /\ rendering' = rendering \ {t}
  /\ qrDataUrl' = IF command = "main" THEN 0 ELSE qrDataUrl
  /\ UNCHANGED <<authVars, chatVars, textVars, folderVars, selectVars, applyVars, msgVars,
                 pwVars, stepVars, issued, qrUrl>>

Next ==
  \/ \E c \in Calls : ConnectOk(c)
  \/ \E c \in Calls : ConnectFail(c)
  \/ \E c \in Calls : RetryDelay(c)
  \/ \E c \in Calls : AuthCheck(c)
  \/ \E c \in Calls : CachedOk(c)
  \/ \E c \in Calls : CachedFail(c)
  \/ \E c \in Calls : LoadOk(c)
  \/ \E c \in Calls : LoadFail(c)
  \/ \E c \in Calls : LoadReauth(c)
  \/ \E c \in Calls : ChildDone(c)
  \/ \E c \in Calls : QrToken(c)
  \/ \E c \in Calls : ScanOk(c)
  \/ \E c \in Calls : PasswordRequested(c)
  \/ \E c \in Calls : OnError2FA(c)
  \/ \E c \in Calls : \E e \in {"expired", "hard"} : OnError(c, e)
  \/ \E c \in Calls : PasswordAccepted(c)
  \/ \E c \in Calls : PasswordRefused(c)
  \/ \E c \in Calls : Timeout(c)
  \/ \E c \in Calls : TickCheck(c)
  \/ \E c \in Calls : TickFinish(c)
  \/ \E c \in Calls : ContinueSuccess(c)
  \/ \E c \in Calls : ContinueRestart(c)
  \/ \E c \in Calls : ContinueFail(c)
  \/ Unmount
  \/ TryAgain
  \/ RefreshQR
  \/ \E n \in 1..MaxSupplies : SupplyPassword(n)

Spec == Init /\ [][Next]_vars

\* The event loop runs what is due: an armed timeout timer fires, and the
\* continuation of the awaited session write runs.
FairSpec ==
  /\ Spec
  /\ \A c \in Calls : WF_vars(Timeout(c)) /\ WF_vars(TickFinish(c))

\* ---- the chat listing on its own ----
\* The backend snapshot is any sequence of at most MaxDialogs dialogs; "main"
\* stands for the listing of the main command and of the service module,
\* "index" for the inline one of src/index.tsx.
ChatInit ==
  /\ AuthQuiet({"main", "index"})
  /\ dialogs \in SeqsUpTo(Entities \cup {NoEntity}, MaxDialogs)
  /\ ChatFresh
  /\ TextIdle
  /\ FoldersIdle
  /\ SelectIdle
  /\ ApplyIdle
  /\ MsgIdle
  /\ PwIdle
  /\ StepIdle
  /\ QrIdle

ChatNext ==
  \/ ListChats
  \/ \E i \in 1..MaxDialogs : OpenChat(i)
  \/ \E i \in 1..MaxDialogs : \E found \in BOOLEAN : LoadChatInfo(i, found)

ChatSpec == ChatInit /\ [][ChatNext]_vars

\* The chat listing over snapshots in which an entity may lack its id.
EntitiesOrIdless ==
  {e \in [className : {"User", "Chat", "Channel"}, id : {NoId, 7},
          megagroup : BOOLEAN, username : {<<>>}] :
     e.megagroup => e.className = "Channel"}

ChatIdInit ==
  /\ AuthQuiet({"main", "index"})
  /\ dialogs \in SeqsUpTo(EntitiesOrIdless \cup {NoEntity}, MaxDialogs)
  /\ ChatFresh
  /\ TextIdle
  /\ FoldersIdle
  /\ SelectIdle
  /\ ApplyIdle
  /\ MsgIdle
  /\ PwIdle
  /\ StepIdle
  /\ QrIdle

ChatIdSpec == ChatIdInit /\ [][ChatNext]_vars

\* sanitizeText on its own: the text is any sequence of at most MaxLen code
\* units.
TextInit ==
  /\ AuthQuiet({"main"})
  /\ ChatIdle
  /\ text \in SeqsUpTo(CodeUnits, MaxLen)
  /\ TextFresh
  /\ FoldersIdle
  /\ SelectIdle
  /\ ApplyIdle
  /\ MsgIdle
  /\ PwIdle
  /\ StepIdle
  /\ QrIdle

TextNext ==
  \/ SanitizeTitle
  \/ SanitizePreview

TextSpec == TextInit /\ [][TextNext]_vars

\* loadFolders on its own: the response has no filters at all, or any
\* sequence of at most MaxFilters filters.
FolderListInit ==
  /\ AuthQuiet({"main"})
  /\ ChatIdle
  /\ TextIdle
  /\ response \in {[ok |-> FALSE, filters |-> <<>>]}
                     \cup {[ok |-> TRUE, filters |-> fs] : fs \in SeqsUpTo(Filters, MaxFilters)}
  /\ FoldersFresh
  /\ SelectIdle
  /\ ApplyIdle
  /\ MsgIdle
  /\ PwIdle
  /\ StepIdle
  /\ QrIdle

FolderListNext == LoadFolders

FolderListSpec == FolderListInit /\ [][FolderListNext]_vars

\* handleFolderSelect on its own, called again and again: a folder id and at
\* most MaxPeers include and pinned peers in all.
FolderSelectInit ==
  /\ AuthQuiet({"main"})
  /\ ChatIdle
  /\ TextIdle
  /\ FoldersIdle
  /\ SelectIdle
  /\ ApplyIdle
  /\ MsgIdle
  /\ PwIdle
  /\ StepIdle
  /\ QrIdle

\* The include and pinned lists a folder can carry.
PeerLists ==
  {ps \in SeqsUpTo(Peers, MaxPeers) \X SeqsUpTo(Peers, MaxPeers) :
     Len(ps[1]) + Len(ps[2]) <= MaxPeers}

FolderSelectNext ==
  \E folderId \in FilterIds : \E ps \in PeerLists :
    handleFolderSelect(folderId, ps[1], ps[2])

FolderSelectSpec == FolderSelectInit /\ [][FolderSelectNext]_vars

\* The folder applied to the chat list: the main command is connected, the
\* backend holds a dialog snapshot and answers the native folder query in one
\* of the NativeResults ways; the user selects a folder once, and the command
\* is launched again once.
FolderEntities ==
  {e \in Entities : e.username = <<>> /\ ~e.megagroup /\ (e.className = "User" => e.id = 7)}

FolderApplyInit ==
  /\ AuthConnected
  /\ dialogs \in SeqsUpTo(FolderEntities \cup {NoEntity}, MaxDialogs)
  /\ ChatFresh
  /\ TextIdle
  /\ FoldersIdle
  /\ SelectIdle
  /\ native \in NativeResults
  /\ restored = FALSE
  /\ MsgIdle
  /\ PwIdle
  /\ StepIdle
  /\ QrIdle

SelectOnce ==
  /\ ~selected.ran
  /\ \E folderId \in FilterIds : \E ps \in PeerLists :
       handleFolderSelect(folderId, ps[1], ps[2])

FolderApplyNext ==
  \/ SelectOnce
  \/ RestoreFolder

FolderApplySpec == FolderApplyInit /\ [][FolderApplyNext]_vars

\* A ChatMessages screen of a connected command: the mount effect has started
\* the first getMessages call; the backend holds no message or one.
MessageInit ==
  /\ AuthConnectedIn({"main", "index"})
  /\ ChatIdle
  /\ TextIdle
  /\ FoldersIdle
  /\ SelectIdle
  /\ ApplyIdle
  /\ newMessage = <<>>
  /\ sendOp = NoSend
  /\ sentCount = 0
  /\ transmitted = <<>>
  /\ backend \in {<<>>, <<<<"a">>>>}
  /\ fetches = <<NewFetch(0, backend)>>
  /\ messages = [fetch |-> 0, sends |-> 0, list |-> <<>>]
  /\ sendError = 0
  /\ PwIdle
  /\ StepIdle
  /\ QrIdle

MessageNext ==
  \/ \E t \in Drafts : TypeMessage(t)
  \/ PressSend
  \/ SendOk
  \/ SendFail
  \/ Refresh
  \/ \E i \in 1..MaxFetches : \E late \in BOOLEAN : FetchDone(i, late)
  \/ \E i \in 1..MaxFetches : FetchFail(i)

MessageSpec == MessageInit /\ [][MessageNext]_vars

\* The password path of the handshake in two runs that differ in nothing but
\* the text typed into the password form: the password callback has been
\* called in both.
PasswordLogInit ==
  /\ AuthQuiet({"main"})
  /\ ChatIdle
  /\ TextIdle
  /\ FoldersIdle
  /\ SelectIdle
  /\ ApplyIdle
  /\ MsgIdle
  /\ secret \in {s \in SeqsUpTo(PasswordChars \ {" "}, MaxPassword) : s # <<>>}
  /\ typed \in [Runs -> SeqsUpTo(PasswordChars, MaxPassword)]
  /\ pwStage = [r \in Runs |-> "form"]
  /\ pwLog = [r \in Runs |-> <<<<"Password requested by Telegram">>>>]
  /\ StepIdle
  /\ QrIdle

PasswordLogNext ==
  \E r \in Runs :
    \/ SubmitPassword(r)
    \/ ReturnPassword(r)
    \/ PasswordVerdict(r)

PasswordLogSpec == PasswordLogInit /\ [][PasswordLogNext]_vars

\* Start-up of the main command over what an earlier run persisted: nothing,
\* or the selection of one of the folders; the chats are loaded once, by the
\* restore path or after a fresh login.
PersistedStores ==
  {[folderId |-> [present |-> FALSE, value |-> 0], include |-> NoItem, pinned |-> NoItem]}
  \cup {[folderId |-> [present |-> TRUE, value |-> f], include |-> includeItem(f),
         pinned |-> pinnedItem(f)] : f \in FilterIds}

StartupInit ==
  /\ AuthConnected
  /\ dialogs \in SeqsUpTo(FolderEntities \cup {NoEntity}, MaxDialogs)
  /\ ChatFresh
  /\ TextIdle
  /\ FoldersIdle
  /\ store \in PersistedStores
  /\ selected = [ran |-> FALSE, folderId |-> 0, includePeers |-> <<>>, pinnedPeers |-> <<>>,
                 allPeers |-> <<>>]
  /\ native \in NativeResults
  /\ restored = FALSE
  /\ MsgIdle
  /\ PwIdle
  /\ StepIdle
  /\ QrIdle

StartupNext == RestoreFolder \/ LoadAfterLogin

StartupSpec == StartupInit /\ [][StartupNext]_vars

\* The qrCode callback of the handshake: the backend issues token after
\* token, each rendering runs until it ends.
QrInit ==
  /\ AuthQuiet({"main", "index"})
  /\ ChatIdle
  /\ TextIdle
  /\ FoldersIdle
  /\ SelectIdle
  /\ ApplyIdle
  /\ MsgIdle
  /\ PwIdle
  /\ StepIdle
  /\ QrIdle

QrNext ==
  \/ IssueToken
  \/ \E t \in 1..MaxTokens : RenderDone(t)
  \/ \E t \in 1..MaxTokens : RenderFail(t)

QrSpec == QrInit /\ [][QrNext]_vars

\* handleFolderSelect step by step in the connected main command: the user can
\* pick a folder while an earlier pick is still running.
FolderStepInit ==
  /\ AuthConnected
  /\ dialogs \in SeqsUpTo({e \in FolderEntities : e.className = "User"}, 1)
  /\ ChatFresh
  /\ TextIdle
  /\ FoldersIdle
  /\ SelectIdle
  /\ ApplyIdle
  /\ MsgIdle
  /\ PwIdle
  /\ StepIdle
  /\ QrIdle

FolderStepNext ==
  \E w \in Selections :
    \/ \E folderId \in FilterIds : SelectStart(w, folderId)
    \/ SelectWriteId(w)
    \/ SelectWriteInclude(w)
    \/ SelectWritePinned(w)
    \/ SelectFetchOk(w)
    \/ \E e \in {"hard", "revoked"} : SelectFetchFail(w, e)
    \/ SelectLoadOk(w)
    \/ \E e \in {"hard", "revoked"} : SelectLoadFail(w, e)

FolderStepSpec == FolderStepInit /\ [][FolderStepNext]_vars

\* ---------------------------------------------------------------------------
\* Properties
\* ---------------------------------------------------------------------------

\* C1 (as stated): one call of initTelegram makes at most MAX_RETRY_ATTEMPTS = 3
\* connect attempts; a 4th connect attempt never happens within one call.
C1_AtMostThreeConnects ==
  \A c \in Calls : connects[c] <= MAX_RETRY_ATTEMPTS

\* C1 (amended): one call of initTelegram makes at most MAX_RETRY_ATTEMPTS + 1 = 4
\* connect attempts.  When every attempt fails it makes exactly 4 and then
\* surfaces the error once.  When attempt k is the first to succeed it has made
\* at least k attempts, and exactly k unless a later exception inside the same
\* try block re-entered the reconnect handler.
C1_BoundedRetry ==
  \A c \in Calls :
    /\ connects[c] <= MAX_RETRY_ATTEMPTS + 1
    /\ (pc[c] = "done" /\ connects[c] > 0 /\ firstOk[c] = 0)
         => (connects[c] = MAX_RETRY_ATTEMPTS + 1 /\ toasts[c] = 1)
    /\ (pc[c] # "done" /\ firstOk[c] = 0) => toasts[c] = 0
    /\ firstOk[c] > 0 => (firstOk[c] <= connects[c] /\ firstOk[c] <= MAX_RETRY_ATTEMPTS + 1)
    /\ (firstOk[c] > 0 /\ postThrows[c] = 0) => connects[c] = firstOk[c]

\* C1 witness: a call whose every connect attempt failed has given up after its
\* 4th attempt and shown the error.
C1_Exhausted ==
  \E c \in Calls :
    /\ pc[c] = "done"
    /\ firstOk[c] = 0
    /\ connects[c] = MAX_RETRY_ATTEMPTS + 1
    /\ retryAttempt[c] = MAX_RETRY_ATTEMPTS
    /\ toasts[c] = 1

\* C2 (as stated): at most one QR handshake is in flight with a live poller at
\* any time.
C2_SingleHandshake ==
  Cardinality({c \in Calls : promise[c] = "pending" /\ pollerOn[c]}) <= 1

\* C3: for one password challenge, however often the secret is supplied, at
\* most one password is returned to the backend, and a challenge is resolved
\* only by an invocation of its own resolver.
C3_SingleResolution ==
  \A c \in Calls :
    /\ delivered[c] <= 1
    /\ delivered[c] = 1 => (chal[c] = "resolved" /\ invoked[c] >= 1)
    /\ chal[c] = "resolved" => (delivered[c] = 1 /\ invoked[c] >= 1)
    /\ chal[c] = "none" => (delivered[c] = 0 /\ invoked[c] = 0)

\* C3 witness: the secret was supplied twice for one challenge and one password
\* reached the backend.
C3_SuppliedTwice ==
  \E c \in Calls : invoked[c] >= 2 /\ delivered[c] = 1 /\ chal[c] = "resolved"

\* C4 (as stated): once the handshake promise of an attempt is rejected, a
\* password challenge of that attempt that is still pending stays pending and
\* no password of it is handed to the backend.
C4_AbandonedChallengeDead ==
  [][\A c \in Calls :
       (promise[c] = "rejected" /\ chal[c] = "pending")
         => (chal'[c] = "pending" /\ delivered'[c] = delivered[c]
             /\ signIn'[c] = signIn[c])]_vars

C6_FirstCompletionWins ==
  [][\A c \in Calls :
       /\ promise[c] \in {"resolved", "rejected"}
            => (promise'[c] = promise[c] /\ rejectErr'[c] = rejectErr[c])
       /\ outcome'[c] # outcome[c]
            => /\ outcome[c] = "none"
               /\ promise[c] \in {"resolved", "rejected"}
               /\ outcome'[c] = IF promise[c] = "resolved" THEN "success" ELSE "failure"]_vars

\* C6 witness: the poller called resolve after the timeout had rejected the
\* promise; only the failure continuation ran.
C6_LateResolveIgnored ==
  \E c \in Calls :
    /\ tick[c] = "end"
    /\ promise[c] = "rejected"
    /\ rejectErr[c] = "timeout"
    /\ outcome[c] = "failure"

\* C7: a call whose authorization check returned true has started no QR
\* handshake (no promise, no sign-in flow, no token shown, no timer, no poller)
\* and is listing chats or has finished.
C7_ShortCircuit ==
  \A c \in Calls :
    checked[c] = "yes"
      => /\ promise[c] = "none"
         /\ signIn[c] = "none"
         /\ qrCode # c
         /\ ~timerOn[c]
         /\ ~pollerOn[c]
         /\ tick[c] = "idle"
         /\ pc[c] \in {"cached", "load", "delay", "nested", "done"}

\* C7 witness: a call that found itself authorized has listed the chats.
C7_ListedWithoutHandshake ==
  \E c \in Calls : checked[c] = "yes" /\ pc[c] = "done" /\ chats = CurClient(c)

\* C8: on handshake success the session write of the attempt has completed
\* before its success path clears needAuth, resolves the promise or fetches
\* chats.
C8_PersistBeforeAuthorized ==
  \A c \in Calls :
    (\/ tick[c] = "end"
     \/ promise[c] = "resolved"
     \/ outcome[c] = "success"
     \/ (checked[c] = "no" /\ chats = CurClient(c)))
      => saved[c]

\* C8 witness: a handshake succeeded and the chats of its connection are shown.
C8_AuthorizedAndListed ==
  \E c \in Calls :
    /\ saved[c]
    /\ outcome[c] = "success"
    /\ pc[c] = "done"
    /\ chats = CurClient(c)

\* C9: a session persisted by the running process was written by the poller of
\* an attempt that had seen its client authorized.
C9_SessionFromAuthorized ==
  session \notin {NoSession, PriorSession}
    => \E c \in Calls :
         /\ session = CurClient(c)
         /\ CurClient(c) \in authorized
         /\ checked[c] = "no"
         /\ saved[c]
         /\ tick[c] \in {"saved", "end"}

\* C9 witness: a session written by an attempt is in the store.
C9_SessionWritten ==
  \E c \in Calls : session = CurClient(c) /\ tick[c] = "end" /\ connects[c] = 0

\* C10: the step that handles an AUTH_TOKEN_EXPIRED rejection deletes the
\* session, starts a new call of initTelegram from its beginning and shows no
\* failure toast.
C10_RestartOnExpiry ==
  [][\A c \in Calls :
       (rejectErr[c] = "expired" /\ outcome[c] = "none" /\ outcome'[c] = "failure")
         => /\ session' = NoSession
            /\ toasts' = toasts
            /\ spawned' = spawned + 1
            /\ child'[c] = spawned'
            /\ pc[child'[c]] = "idle"
            /\ pc'[child'[c]] = "start"
            /\ promise[child'[c]] = "none"
            /\ retryAttempt[child'[c]] = 0
            /\ error' \in {"none", error}]_vars

\* C10 witness: after an expiry the restarted call is in a new QR handshake and
\* no toast was shown for the expired attempt.
C10_RestartedHandshake ==
  \E c \in Calls :
    /\ rejectErr[c] = "expired"
    /\ outcome[c] = "failure"
    /\ toasts[c] = 0
    /\ child[c] \in Calls
    /\ promise[child[c]] = "pending"
    /\ signIn[child[c]] = "qr"

\* C11: a step in which handleError runs (it shows one failure toast) deletes
\* the session and sets needAuth when the message contains
\* AUTH_KEY_UNREGISTERED, and leaves both unchanged for every other message.
\* The main command records the handled message in its error state.
C11_RevokedOnlyClears ==
  [][\A c \in Calls :
       toasts'[c] # toasts[c]
         => /\ toasts'[c] = toasts[c] + 1
            /\ \/ session' = NoSession /\ needAuth' = TRUE
               \/ session' = session /\ needAuth' = needAuth
            /\ command = "main"
                 => IF includes(Message(error'), "AUTH_KEY_UNREGISTERED")
                    THEN session' = NoSession /\ needAuth' = TRUE
                    ELSE session' = session /\ needAuth' = needAuth]_vars

\* C11 witness: a call that was authorized by a stored session got a revoked
\* credential error while listing; the session is gone and needAuth is set.
C11_RevokedHandled ==
  \E c \in Calls :
    /\ command = "main"
    /\ checked[c] = "yes"
    /\ pc[c] = "done"
    /\ toasts[c] = 1
    /\ error = "revoked"
    /\ session = NoSession
    /\ needAuth

\* C12 (as stated): once the component is unmounted no poller and no timeout
\* timer of any attempt is armed, and no handshake promise or password
\* challenge is left pending.
C12_TeardownCancels ==
  ~mounted
    => \A c \in Calls :
         /\ ~pollerOn[c]
         /\ ~timerOn[c]
         /\ promise[c] # "pending"
         /\ chal[c] # "pending"

\* C13 (as stated): at most one client has an open backend connection at any
\* time.
C13_SingleLiveConnection ==
  Cardinality(live) <= 1

C15_RoundTrip ==
  (command = "main" /\ chatInfo # NoChatInfo)
    => chatInfo.type = chatTypeOf(dialogs[chatInfo.dialog])

\* C16 (as stated): the URI opened for a listed chat is resolve?domain= with
\* the username when there is one; otherwise it is chosen by the prefix of the
\* chat id ("-100": privatepost?channel=, "-": group?id=, else user?id=) and
\* its numeric part is the id of the entity the chat id was encoded from.
C16_DeepLink ==
  (command = "main" /\ opened # NotOpened)
    => LET entity == dialogs[opened.dialog]
           chatId == formatDialog(entity, opened.dialog).id
       IN IF entity.username # <<>>
          THEN opened.template = "resolve?domain=" /\ opened.arg = entity.username
          ELSE /\ opened.template =
                    IF startsWith(chatId, <<"-", "1", "0", "0">>) THEN "privatepost?channel="
                    ELSE IF startsWith(chatId, <<"-">>) THEN "group?id="
                    ELSE "user?id="
               /\ opened.arg = toString(entity.id)

\* C17 (as stated): a listing shows no failure and holds exactly the chats of
\* the dialogs that have an entity, in snapshot order.
C17_DropsEntityless ==
  listing.ran
    => /\ ~listing.toast
       /\ Len(listing.chats) = Cardinality({i \in 1..Len(dialogs) : dialogs[i] # NoEntity})
       /\ \A k \in 1..Len(listing.chats) : dialogs[listing.chats[k].dialog] # NoEntity
       /\ \A j, k \in 1..Len(listing.chats) :
            j < k => listing.chats[j].dialog < listing.chats[k].dialog

\* C18 (as stated): a sanitized text holds no control character and no
\* unpaired surrogate code unit and has at most 1000 code units; a message
\* preview has at most 100.
C18_Sanitized ==
  /\ clean.titleDone
       => /\ Len(clean.title) <= 1000
          /\ \A i \in 1..Len(clean.title) :
               /\ clean.title[i] # "c"
               /\ clean.title[i] = "H"
                    => (i < Len(clean.title) /\ clean.title[i + 1] = "L")
               /\ clean.title[i] = "L"
                    => (i > 1 /\ clean.title[i - 1] = "H")
  /\ clean.previewDone => Len(clean.lastMessage) <= 100

C20_SelectPersists ==
  (selected.ran /\ selected.folderId # 0)
    => LET idsOf(ps) == {ps[k].id : k \in 1..Len(ps)}
           args == selected.includePeers \o selected.pinnedPeers
           encoded == idsOf(peerIds(args, 1))
           membership == idsOf(selected.allPeers)
       IN /\ store.folderId = [present |-> TRUE, value |-> selected.folderId]
          /\ idsOf(store.include.value) \cup idsOf(store.pinned.value) = encoded
          /\ membership = encoded
          /\ (/\ Len(selected.includePeers) = 2
              /\ Len(selected.pinnedPeers) = 1
              /\ Cardinality({args[k] : k \in 1..3}) = 3
              /\ \A k \in 1..3 : args[k].kind # "self")
               => Cardinality(membership) = 3

\* C21: once handleFolderSelect has run with folder id 0, the persisted
\* folder id is 0 and neither peer list is persisted, whatever was persisted
\* before and whatever include and pinned peers were passed.
C21_AllChatsClears ==
  (selected.ran /\ selected.folderId = 0)
    => /\ store.folderId = [present |-> TRUE, value |-> 0]
       /\ store.include = NoItem
       /\ store.pinned = NoItem

\* C21 witness: folder 0 was selected with include and pinned peers passed.
C21_ZeroWithPeers ==
  /\ selected.ran
  /\ selected.folderId = 0
  /\ Len(selected.includePeers) = 2
  /\ Len(selected.pinnedPeers) = 1
  /\ ~store.include.present
  /\ ~store.pinned.present

\* C22: once a folder has been applied, by a selection or by a launch, the
\* chat list is the whole formatted snapshot for folder 0; for another folder
\* with cached peer ids it holds, in snapshot order and once each, exactly the
\* formatted chats of the snapshot whose id is among the cached include or
\* pinned ids.
C22_FolderApplied ==
  (listing.ran /\ (selected.ran \/ restored))
    => LET folderId == IF store.folderId.present THEN store.folderId.value ELSE 0
           cached == {store.include.value[k].id : k \in 1..Len(store.include.value)}
                       \cup {store.pinned.value[k].id : k \in 1..Len(store.pinned.value)}
           list == listing.chats
           member(i) == dialogs[i] # NoEntity /\ formatDialog(dialogs[i], i).id \in cached
       IN /\ folderId = 0 => list = formatAll(dialogs, 1)
          /\ (folderId # 0 /\ cached # {})
               => /\ \A k \in 1..Len(list) :
                       /\ list[k].dialog \in 1..Len(dialogs)
                       /\ member(list[k].dialog)
                       /\ list[k] = formatDialog(dialogs[list[k].dialog], list[k].dialog)
                  /\ \A j, k \in 1..Len(list) : j < k => list[j].dialog < list[k].dialog
                  /\ \A i \in 1..Len(dialogs) :
                       member(i) => \E k \in 1..Len(list) : list[k].dialog = i

\* C22 witness: a folder of one user is restored on launch over a snapshot of
\* a channel and that user; only the user's chat is listed.
C22_OneOfTwoShown ==
  /\ restored
  /\ store.folderId.present
  /\ store.folderId.value # 0
  /\ store.include.present
  /\ Len(dialogs) = 2
  /\ dialogs[1].className = "Channel"
  /\ dialogs[2].className = "User"
  /\ Len(listing.chats) = 1
  /\ listing.chats[1].dialog = 2

\* C23 (as stated): when a non-zero folder is applied and no peer id is
\* cached for it, the listing shows no failure and the chat list comes from
\* the fetched dialog snapshot: each of its chats is the formatted chat of a
\* snapshot dialog, and it is not empty when the snapshot has chats.
C23_FallbackWithoutCache ==
  (/\ listing.ran
   /\ selected.ran \/ restored
   /\ store.folderId.present
   /\ store.folderId.value # 0
   /\ ~store.include.present
   /\ ~store.pinned.present)
    => /\ ~listing.toast
       /\ \A k \in 1..Len(listing.chats) :
            /\ listing.chats[k].dialog \in 1..Len(dialogs)
            /\ dialogs[listing.chats[k].dialog] # NoEntity
            /\ listing.chats[k]
                 = formatDialog(dialogs[listing.chats[k].dialog], listing.chats[k].dialog)
       /\ formatAll(dialogs, 1) # <<>> => listing.chats # <<>>

\* C24 (as stated): every text handed to client.sendMessage holds no control
\* character and no unpaired surrogate code unit and has at most 1000 code
\* units.
C24_SentSanitized ==
  \A k \in 1..Len(transmitted) :
    LET t == transmitted[k].text
    IN /\ Len(t) <= 1000
       /\ \A i \in 1..Len(t) :
            /\ t[i] # "c"
            /\ t[i] = "H" => (i < Len(t) /\ t[i + 1] = "L")
            /\ t[i] = "L" => (i > 1 /\ t[i - 1] = "H")

\* C25 (as stated): the displayed message list is always what a getMessages
\* call returned (the backend's messages up to some point, as loadMessages
\* shows them), and the call that set it was started after the last send
\* completed before it was shown.
C25_NoLocalEcho ==
  messages.fetch # 0
    => /\ \E n \in 0..Len(backend) : messages.list = shownMessages(SubSeq(backend, 1, n))
       /\ fetches[messages.fetch].startedAt = messages.sends

C27_BackendErrorNotRetried ==
  \A c \in Calls :
    postThrows[c] > 0
      => /\ pc[c] = "done"
         /\ toasts[c] = 1
         /\ connects[c] = firstOk[c]

\* C28 (as stated): two finished runs whose typed passwords have the same
\* length have the same console output.
C28_SameLengthSameLog ==
  (/\ \A r \in Runs : pwStage[r] \in {"empty", "accepted", "refused"}
   /\ Len(typed["first"]) = Len(typed["second"]))
    => pwLog["first"] = pwLog["second"]

\* C28 (amended): no console line holds a character of the password; two
\* finished runs whose passwords have the same length after trimming and got
\* the same answer from the backend have the same console output.
C28_NoCleartext ==
  /\ \A r \in Runs : \A k \in 1..Len(pwLog[r]) : \A i \in 1..Len(pwLog[r][k]) :
       pwLog[r][k][i] \notin PasswordChars
  /\ (/\ \A r \in Runs : pwStage[r] \in {"empty", "accepted", "refused"}
      /\ pwStage["first"] = pwStage["second"]
      /\ Len(trim(typed["first"])) = Len(trim(typed["second"])))
       => pwLog["first"] = pwLog["second"]

\* C28 witness: two different wrong passwords of the same length have been
\* refused, with the same console output.
C28_TwoWrongPasswords ==
  /\ typed["first"] = <<"p", "q">>
  /\ typed["second"] = <<"q", "p">>
  /\ secret = <<"p", "p">>
  /\ pwStage["first"] = "refused"
  /\ pwStage["second"] = "refused"
  /\ pwLog["first"] = pwLog["second"]

\* C29 (as stated): once the handshake promise of an attempt has been rejected
\* with the timeout or a hard error, its poller does not run, and the attempt
\* neither writes the persisted session nor runs the poller's state updates
\* (needAuth, needPassword) afterwards.
C29_RejectedAttemptFinished ==
  [][\A c \in Calls :
       (promise[c] = "rejected" /\ rejectErr[c] \in {"timeout", "hard"})
         => (/\ ~pollerOn[c]
             /\ saved'[c] = saved[c]
             /\ tick'[c] = tick[c])]_vars

\* C30 (as stated): after a revocation error has been handled (session
\* deleted, needAuth set) in a command that stays open, a QR handshake is
\* eventually in flight.
C30_RevocationReauth ==
  (mounted /\ error = "revoked" /\ needAuth /\ session = NoSession)
    ~> (~mounted \/ \E c \in Calls : promise[c] = "pending")

\* C31 (as stated): two listed chats with the same chat id come from entities
\* of the same class and the same numeric id.
C31_EncodeInjective ==
  (listing.ran /\ command = "main")
    => \A i, j \in 1..Len(listing.chats) :
         listing.chats[i].id = listing.chats[j].id
           => (/\ dialogs[listing.chats[i].dialog].className
                    = dialogs[listing.chats[j].dialog].className
               /\ dialogs[listing.chats[i].dialog].id
                    = dialogs[listing.chats[j].dialog].id)

\* C32 (as stated): every chat listed by formatDialog comes from an entity
\* that has an id, and its chat id is the decimal id behind "", "-" or "-100".
C32_WellFormedId ==
  (listing.ran /\ command = "main")
    => \A k \in 1..Len(listing.chats) :
         LET chat == listing.chats[k]
             entity == dialogs[chat.dialog]
         IN /\ entity.id # NoId
            /\ chat.id \in {toString(entity.id), <<"-">> \o toString(entity.id),
                            <<"-", "1", "0", "0">> \o toString(entity.id)}

\* C33 (as stated): in every state the persisted include and pinned lists
\* are absent or are the ones of the folder persisted as selected.
C33_CacheConsistent ==
  LET folderId == IF store.folderId.present THEN store.folderId.value ELSE 0
  IN /\ store.include \in {NoItem, includeItem(folderId)}
     /\ store.pinned \in {NoItem, pinnedItem(folderId)}

\* C35 (as stated): once every started folder selection has run to its end,
\* the loading indicator is off.
C35_LoadingReset ==
  (\A w \in Selections : writers[w].at \in {"idle", "done"}) => ~isLoading

\* C34 (as stated): after start-up the in-memory folder id is the persisted
\* one, and the chat list is the snapshot for folder 0 and the snapshot
\* filtered by the cached peers for a folder that has them.
C34_ListIsPersistedFolder ==
  restored =>
    LET folderId == IF store.folderId.present THEN store.folderId.value ELSE 0
        allPeers == pushPinned(store.include.value, store.pinned.value, 1)
    IN /\ selected.folderId = folderId
       /\ folderId = 0 => listing.chats = formatAll(dialogs, 1)
       /\ (folderId # 0 /\ Len(allPeers) > 0)
            => listing.chats = chatsInFolder(allPeers, formatAll(dialogs, 1), 1)

\* C36 (as stated): once no rendering is running, the displayed URI is the one
\* of the latest token and the displayed image, if there is one, is its image.
C36_LatestTokenShown ==
  (issued > 0 /\ rendering = {}) => (qrUrl = issued /\ qrDataUrl \in {0, issued})

\* C37 (as stated): no text handed to client.sendMessage is empty.
C37_NeverEmpty ==
  \A k \in 1..Len(transmitted) : transmitted[k].text # <<>>

\* C38: a send that is rejected leaves the input text, the message list and
\* the started getMessages calls as they are and reports one error.
C38_FailedSendFrame ==
  [][(sendOp.state = "flight" /\ sendOp'.state = "idle" /\ sentCount' = sentCount)
       => (/\ newMessage' = newMessage
           /\ messages' = messages
           /\ fetches' = fetches
           /\ backend' = backend
           /\ sendError' = sendError + 1)]_vars

\* C38 witness: a send has been rejected; the input still holds the text and
\* no getMessages call has been started after the first one.
C38_DraftKept ==
  /\ Len(transmitted) = 1
  /\ sentCount = 0
  /\ sendOp = NoSend
  /\ sendError = 1
  /\ newMessage = transmitted[1].input
  /\ Len(fetches) = 1
  /\ ~fetches[1].done

\* C39 (as stated): whichever command lists an entity, the chat gets the id
\* and the type that formatDialog gives it.
C39_SameIdEverywhere ==
  listing.ran
    => \A k \in 1..Len(listing.chats) :
         LET chat == listing.chats[k]
             entity == dialogs[chat.dialog]
         IN entity # NoEntity
              => (/\ chat.id = formatDialog(entity, chat.dialog).id
                  /\ chat.type = formatDialog(entity, chat.dialog).type)

\* C40 (as stated): every ordinary character of the input (not a control
\* character, not a surrogate, not white space) is in the sanitized text, in
\* the original order: as many of them come out as went in.
C40_KeepsOrdinary ==
  clean.titleDone
    => Cardinality({i \in 1..Len(clean.title) : clean.title[i] = "a"})
         = Cardinality({i \in 1..Len(text) : text[i] = "a"})

====
